---- MODULE Spec2Model ----
(***************************************************************************)
(* polymarket-agent: the council pipeline (sentiment, confidence, judge),  *)
(* the risk gate and the paper trader, the council loop with its cooldown  *)
(* map, and the feed aggregator.                                           *)
(*                                                                         *)
(* Units.  Money is in whole USD.  Confidence is in hundredths (60 is the  *)
(* source's 0.6).  Time is in whole seconds of the monotonic clock.        *)
(*                                                                         *)
(* Text.  A model output is a sequence of lines; a line is a labelled      *)
(* field as the stage's regular expressions see it: its label and the      *)
(* token the capture group would return.  A line no pattern matches has    *)
(* the label "NOISE".                                                      *)
(***************************************************************************)
EXTENDS Integers, Sequences, FiniteSets, TLC

VARIABLES
    cfg,             \* Config / constructor arguments of the components
    \* ---- shared/ollama_client.py
    chat,            \* what chat_async did for the stage called on its own: raised, or the two channels
    \* ---- shared/schemas.py
    utc,             \* datetime.utcnow(): the wall clock, which the host may set back
    \* ---- agent.py, feed_aggregator.py, divergence_detector.py: stopping
    stop,            \* the stop flags, the loops that were inside their wait for
                     \* work when their flag was set, and the waits elapsed since
    \* ---- agent.py: TradingAgent.start, from "await self._shutdown.wait()" on
    life,            \* tasks cancelled, tasks that have ended, the database, whether start() returned
    \* ---- agent.py: TradingAgent.start
    boot,            \* TRADING_MODE, POLYMARKET_PRIVATE_KEY, and whether the tasks were created
    \* ---- execution/order_manager.py: one OrderManager.execute() call
    venue,           \* its position, its arguments, what the venue answered, its return value
    \* ---- feeds/binance_ws.py: get_momentum called on its own
    mom,             \* history: every price recorded per symbol; the symbol asked and the value returned
    \* ---- strategy/signal.py: composite_score called on its own
    scored,          \* its arguments and the score returned
    \* ---- council/orchestrator.py: one evaluate() call
    epc,             \* position inside evaluate(): idle, sentiment, confidence, judge, done, raised
    calls,           \* the inference calls made by the current evaluate(), in order
    sentiment,       \* SentimentResult of the current evaluate()
    confidence,      \* ConfidenceGrade of the current evaluate()
    verdict,         \* TradeVerdict of the current evaluate()
    failed,          \* history: the stages of the current evaluate() whose inference call raised
    \* ---- storage/db.py
    trades,          \* the trades table: sequence of rows [size_usd, symbol, open]
    signal_log,      \* the signals table: sequence of rows [symbol, council_action]
    \* ---- execution/paper_trader.py: the execute() calls in flight, per caller
    ex,
    overlap,         \* history: some execute() call started before another had written its trade
    \* ---- agent.py: TradingAgent._council_loop
    clock,           \* time.monotonic()
    signal_queue,    \* asyncio.Queue of DivergenceSignal
    lpc,             \* position of the council loop
    cur,             \* the loop's local `signal`
    now,             \* the loop's local `now`
    available,       \* the loop's local `available`
    cooldown_until,  \* the loop's local dict cooldown_until
    hist,            \* history of the council loop: what each iteration did
    \* ---- feeds/binance_ws.py, feeds/polymarket_odds.py
    price_history,   \* BinanceFeed._price_history: per symbol, the last prices
    binance,         \* the price feed: ticks made so far, and the tick its put() is blocked on
    odds_feed,       \* the odds feed: snapshots made so far, and the one its put() is blocked on
    price_queue,     \* asyncio.Queue of PriceTick
    odds_queue,      \* asyncio.Queue of OddsSnapshot
    \* ---- feeds/feed_aggregator.py
    latest_odds,     \* FeedAggregator._latest_odds: token_id -> OddsSnapshot
    agg,             \* _consume_prices: the tick in hand, the market index, the blocked put
    paired_queue,    \* asyncio.Queue of PairedData
    lookups,         \* history: every read of _latest_odds by _consume_prices
    emitted,         \* history: every PairedData put on the paired queue
    odds_seen,       \* history: per token_id, the latest timestamp _consume_odds has dequeued
    \* ---- strategy/divergence_detector.py
    det              \* the detector: the signal its put() is blocked on

vars == <<cfg, chat, utc, stop, boot, venue, mom, scored, life, epc, calls, sentiment, confidence, verdict, failed, trades,
          signal_log, ex, overlap, clock, signal_queue, lpc, cur, now,
          available, cooldown_until, hist, price_history, binance, odds_feed,
          price_queue, odds_queue, latest_odds, agg, paired_queue, lookups,
          emitted, odds_seen, det>>

councilVars == <<epc, calls, sentiment, confidence, verdict, failed>>
dbVars      == <<trades, signal_log>>
execVars    == <<ex, overlap>>
loopVars    == <<clock, signal_queue, lpc, cur, now, available, cooldown_until, hist>>
feedVars    == <<price_history, binance, odds_feed, price_queue, odds_queue>>
aggVars     == <<latest_odds, agg, paired_queue, lookups, emitted, odds_seen>>
pipeVars    == <<feedVars, aggVars, det>>

(***************************************************************************)
(* Bounds of the model.                                                    *)
(***************************************************************************)
MaxLines == 2        \* lines per channel of one model output
MaxTrades == 3       \* rows the trades table may hold
MaxSignals == 2      \* signals the detector side puts on the signal queue
MaxTime == 3         \* the clock stops advancing here
CooldownSecs == 2    \* Config.COOLDOWN_SECONDS, scaled to the clock's range
SignalCap == 1       \* signal_queue's maxsize (100), scaled

MinTradeSize == 5    \* the literal 5.0 of TradeJudge._parse

Symbols == {"btcusdt", "ethusdt"}

Max(a, b) == IF a >= b THEN a ELSE b
Min(a, b) == IF a <= b THEN a ELSE b

(***************************************************************************)
(* Stopping: TradingAgent._shutdown, FeedAggregator._running,              *)
(* DivergenceDetector._running                                             *)
(***************************************************************************)
MaxWaits == 1        \* 5-second waits that elapse after the flags are set

Loops == {"odds", "prices", "detector", "council"}

\* the state after TradingAgent.start() created the tasks, in paper mode
Booted == [mode |-> "paper", key |-> "", started |-> TRUE]

\* TradingAgent.start(): the database, the feeds, the detector, the council and
\* the paper trader are built and the tasks created, whatever TRADING_MODE and
\* POLYMARKET_PRIVATE_KEY are
Start ==
    /\ ~boot.started
    /\ boot' = [boot EXCEPT !.started = TRUE]
    /\ UNCHANGED <<cfg, chat, utc, stop, venue, mom, scored, life, epc, calls, sentiment, confidence, verdict,
                   failed, trades, signal_log, ex, overlap, clock, signal_queue, lpc, cur,
                   now, available, cooldown_until, hist, price_history, binance, odds_feed,
                   price_queue, odds_queue, latest_odds, agg, paired_queue, lookups,
                   emitted, odds_seen, det>>

\* nothing is stopped
Running == [shutdown |-> FALSE, agg |-> TRUE, det |-> TRUE, waiting |-> {}, waits |-> 0]

\* the tasks start() creates
Tasks == {"binance", "odds", "aggregator", "detector", "council", "status", "dashboard"}

OtherTasks == Tasks \ {"council"}

\* start() is waiting for the shutdown event: no task cancelled, none ended
\* (the council task, and how many of the others), the database open
Alive == [cancelled |-> FALSE, council_done |-> FALSE, others_done |-> 0,
          db |-> "open", returned |-> FALSE]

\* every task start() created has ended
AllDone == life.council_done /\ life.others_done = Cardinality(OtherTasks)

\* the "while" test of a consumer loop
Flag(loop) ==
    CASE loop \in {"odds", "prices"} -> stop.agg
      [] loop = "detector" -> stop.det
      [] loop = "council" -> ~stop.shutdown

\* the loop is inside "await asyncio.wait_for(queue.get(), timeout=5.0)": its
\* flag is set, or was cleared after the loop had entered the wait
InGet(loop) == Flag(loop) \/ loop \in stop.waiting

\* get() returned an item; the loop has left the wait it was in
LeaveGet(loop) == stop' = [stop EXCEPT !.waiting = @ \ {loop}]

RECURSIVE SumSeq(_)
SumSeq(s) == IF s = <<>> THEN 0 ELSE Head(s) + SumSeq(Tail(s))

(***************************************************************************)
(* Text and its extraction.                                                *)
(***************************************************************************)
Line(label, val) == [label |-> label, val |-> val]
Num(v) == [ok |-> TRUE, v |-> v]      \* a numeral float() accepts, e.g. "0.6"
BadNum == [ok |-> FALSE, v |-> 0]     \* a [\d.]+ match float() rejects, e.g. "1.2.3"

RECURSIVE SeqsUpTo(_, _)
SeqsUpTo(S, n) ==
    IF n = 0 THEN {<<>>}
    ELSE LET shorter == SeqsUpTo(S, n - 1)
         IN shorter \cup {Append(s, x) : s \in {t \in shorter : Len(t) = n - 1}, x \in S}

\* str.upper() on the tokens the patterns can capture (re.IGNORECASE)
Upper(tok) ==
    CASE tok = "bullish" -> "BULLISH"
      [] tok = "bearish" -> "BEARISH"
      [] tok = "neutral" -> "NEUTRAL"
      [] tok = "trade"   -> "TRADE"
      [] tok = "skip"    -> "SKIP"
      [] OTHER           -> tok

\* pattern.findall(text) for the pattern of a field: the captured tokens, in order
FindAll(label, text) ==
    LET hits == SelectSeq(text, LAMBDA l : l.label = label)
    IN [i \in 1..Len(hits) |-> hits[i].val]

\* shared/ollama_client.py _merge_fields: the <think> wrapper adds no field
merge_fields(response, thinking) ==
    IF thinking = <<>> THEN response
    ELSE IF response = <<>> THEN thinking
    ELSE thinking \o response

\* "findall(response) if response else []", then the fallback to merged
Matches(label, response, merged) ==
    LET clean == IF response # <<>> THEN FindAll(label, response) ELSE <<>>
    IN IF clean = <<>> THEN FindAll(label, merged) ELSE clean

Last(s) == s[Len(s)]

\* What chat_async can do: raise, or return the two channels
ChatOutcomes(lines) ==
    {[ok |-> FALSE, response |-> <<>>, thinking |-> <<>>]}
    \cup [ok : {TRUE}, response : SeqsUpTo(lines, MaxLines), thinking : SeqsUpTo(lines, MaxLines)]


SentLines  == {Line("SENTIMENT", "BULLISH"), Line("SENTIMENT", "bearish"), Line("NOISE", "")}
ConfLines  == {Line("CONFIDENCE", Num(30)), Line("CONFIDENCE", Num(60)),
               Line("CONFIDENCE", Num(150)), Line("CONFIDENCE", BadNum),
               Line("NOISE", "")}
JudgeLines == {Line("DECISION", "TRADE"), Line("DECISION", "skip"),
               Line("SIZE", Num(0)), Line("SIZE", Num(30)), Line("SIZE", Num(500)),
               Line("SIZE", BadNum)}

(***************************************************************************)
(* council/sentiment_agent.py                                              *)
(***************************************************************************)
\* SentimentParse taking the first match instead of the last
SentimentParseFirst(response, thinking, merged) ==
    LET m == Matches("SENTIMENT", response, merged)
    IN [sentiment |-> IF m # <<>> THEN Upper(m[1]) ELSE "NEUTRAL",
        rationale |-> "model", raised |-> FALSE]

SentimentParse(response, thinking, merged) ==
    LET m == Matches("SENTIMENT", response, merged)
    IN [sentiment |-> IF m # <<>> THEN Upper(Last(m)) ELSE "NEUTRAL",
        rationale |-> "model", raised |-> FALSE]

\* analyze() without its "except Exception": a failed inference call propagates
analyzeNoCatch(out) ==
    IF out.ok
    THEN SentimentParse(out.response, out.thinking, merge_fields(out.response, out.thinking))
    ELSE [sentiment |-> "NEUTRAL", rationale |-> "error", raised |-> TRUE]

analyze(out) ==
    IF out.ok
    THEN SentimentParse(out.response, out.thinking, merge_fields(out.response, out.thinking))
    ELSE [sentiment |-> "NEUTRAL", rationale |-> "error", raised |-> FALSE]

(***************************************************************************)
(* council/confidence_grader.py                                            *)
(***************************************************************************)
\* ConfidenceParse without the clamp to [0, 1]
ConfidenceParseUnclamped(response, thinking, merged) ==
    LET m == Matches("CONFIDENCE", response, merged)
    IN [confidence |-> IF m # <<>> /\ Last(m).ok THEN Last(m).v ELSE 0,
        rationale |-> "model", raised |-> FALSE]

\* ConfidenceParse with a default of 0.5 when nothing matches
ConfidenceParseDefaultHalf(response, thinking, merged) ==
    LET m == Matches("CONFIDENCE", response, merged)
    IN [confidence |-> IF m = <<>> THEN 50
                       ELSE IF Last(m).ok THEN Max(0, Min(100, Last(m).v)) ELSE 0,
        rationale |-> "model", raised |-> FALSE]

ConfidenceParse(response, thinking, merged) ==
    LET m == Matches("CONFIDENCE", response, merged)
    IN [confidence |-> IF m # <<>> /\ Last(m).ok
                       THEN Max(0, Min(100, Last(m).v))
                       ELSE 0,
        rationale |-> "model", raised |-> FALSE]

\* grade() returning full confidence when the call raised
gradeTrustsOnError(out) ==
    IF out.ok
    THEN ConfidenceParse(out.response, out.thinking, merge_fields(out.response, out.thinking))
    ELSE [confidence |-> 100, rationale |-> "error", raised |-> FALSE]

grade(out) ==
    IF out.ok
    THEN ConfidenceParse(out.response, out.thinking, merge_fields(out.response, out.thinking))
    ELSE [confidence |-> 0, rationale |-> "error", raised |-> FALSE]

(***************************************************************************)
(* council/trade_judge.py                                                  *)
(***************************************************************************)
\* JudgeParse without the final "size_usd <= 0" test
JudgeParseKeepsAction(response, thinking, merged, max_position_size) ==
    LET dm == Matches("DECISION", response, merged)
        sm == Matches("SIZE", response, merged)
        action0 == IF dm # <<>> THEN Upper(Last(dm)) ELSE "SKIP"
        sized == action0 = "TRADE" /\ sm # <<>>
        size1 == IF sized /\ Last(sm).ok
                 THEN Max(MinTradeSize, Min(Last(sm).v, max_position_size))
                 ELSE 0
        action1 == IF sized /\ ~Last(sm).ok THEN "SKIP" ELSE action0
    IN [action |-> action1, size_usd |-> size1, rationale |-> "model",
        model |-> "judge", raised |-> FALSE]

\* JudgeParse falling back for the whole output at once: when the clean
\* channel has any DECISION or SIZE line, no field is looked up in merged
JudgeParseJointFallback(response, thinking, merged, max_position_size) ==
    LET anyClean == FindAll("DECISION", response) # <<>> \/ FindAll("SIZE", response) # <<>>
        dm == IF anyClean THEN FindAll("DECISION", response) ELSE FindAll("DECISION", merged)
        sm == IF anyClean THEN FindAll("SIZE", response) ELSE FindAll("SIZE", merged)
        action0 == IF dm # <<>> THEN Upper(Last(dm)) ELSE "SKIP"
        sized == action0 = "TRADE" /\ sm # <<>>
        size1 == IF sized /\ Last(sm).ok
                 THEN Max(MinTradeSize, Min(Last(sm).v, max_position_size))
                 ELSE 0
        action1 == IF sized /\ ~Last(sm).ok THEN "SKIP" ELSE action0
        action2 == IF action1 = "TRADE" /\ size1 <= 0 THEN "SKIP" ELSE action1
    IN [action |-> action2, size_usd |-> size1, rationale |-> "model",
        model |-> "judge", raised |-> FALSE]

JudgeParse(response, thinking, merged, max_position_size) ==
    LET dm == Matches("DECISION", response, merged)
        sm == Matches("SIZE", response, merged)
        action0 == IF dm # <<>> THEN Upper(Last(dm)) ELSE "SKIP"
        sized == action0 = "TRADE" /\ sm # <<>>
        \* float() raised ValueError: size 0, action SKIP
        size1 == IF sized /\ Last(sm).ok
                 THEN Max(MinTradeSize, Min(Last(sm).v, max_position_size))
                 ELSE 0
        action1 == IF sized /\ ~Last(sm).ok THEN "SKIP" ELSE action0
        action2 == IF action1 = "TRADE" /\ size1 <= 0 THEN "SKIP" ELSE action1
    IN [action |-> action2, size_usd |-> size1, rationale |-> "model",
        model |-> "judge", raised |-> FALSE]

\* judge() without its try/except: the exception leaves the stage
judgeNoCatch(out, max_position_size) ==
    IF out.ok
    THEN JudgeParse(out.response, out.thinking,
                    merge_fields(out.response, out.thinking), max_position_size)
    ELSE [action |-> "SKIP", size_usd |-> 0, rationale |-> "error",
          model |-> "judge", raised |-> TRUE]

judge(out, max_position_size) ==
    IF out.ok
    THEN JudgeParse(out.response, out.thinking,
                    merge_fields(out.response, out.thinking), max_position_size)
    ELSE [action |-> "SKIP", size_usd |-> 0, rationale |-> "error",
          model |-> "judge", raised |-> FALSE]

(***************************************************************************)
(* council/orchestrator.py                                                 *)
(***************************************************************************)
NoSentiment  == [sentiment |-> "NEUTRAL", rationale |-> "none", raised |-> FALSE]
NoConfidence == [confidence |-> 0, rationale |-> "none", raised |-> FALSE]
NoVerdict    == [action |-> "SKIP", size_usd |-> 0, rationale |-> "none",
                 model |-> "none", raised |-> FALSE]

\* the short-circuit test written with <=
ShortCircuitLe(conf, min_confidence) == conf <= min_confidence

\* "if confidence.confidence < self.min_confidence"
ShortCircuit(conf, min_confidence) == conf < min_confidence

ShortCircuitVerdict ==
    [action |-> "SKIP", size_usd |-> 0, rationale |-> "short-circuit",
     model |-> "short-circuit", raised |-> FALSE]

\* What one stage can come back with: whether the call raised, and the
\* stage's result for that outcome
SentimentOutcomes ==
    {[ok |-> out.ok, r |-> analyze(out)] : out \in ChatOutcomes(SentLines)}
ConfidenceOutcomes ==
    {[ok |-> out.ok, r |-> grade(out)] : out \in ChatOutcomes(ConfLines)}
MaxPositionSizes == {3, 50}
JudgeOutcomes ==
    [m \in MaxPositionSizes |->
        {[ok |-> out.ok, r |-> judge(out, m)] : out \in ChatOutcomes(JudgeLines)}]

\* Step 1 with a retry: a failed inference call is made again
EvalSentimentRetries ==
    /\ epc = "sentiment"
    /\ \E o \in SentimentOutcomes :
          /\ calls' = Append(calls, "sentiment")
          /\ sentiment' = o.r
          /\ epc' = IF o.r.raised THEN "raised" ELSE IF o.ok THEN "confidence" ELSE "sentiment"
          /\ failed' = IF o.ok THEN failed ELSE failed \cup {"sentiment"}
    /\ UNCHANGED <<cfg, chat, utc, stop, boot, venue, mom, scored, life, pipeVars, confidence, verdict, dbVars, execVars, loopVars>>

\* Step 1: the sentiment agent's inference call and its parse
EvalSentiment ==
    /\ epc = "sentiment"
    /\ \E o \in SentimentOutcomes :
          /\ calls' = Append(calls, "sentiment")
          /\ sentiment' = o.r
          /\ epc' = IF o.r.raised THEN "raised" ELSE "confidence"
          /\ failed' = IF o.ok THEN failed ELSE failed \cup {"sentiment"}
    /\ UNCHANGED <<cfg, chat, utc, stop, boot, venue, mom, scored, life, pipeVars, confidence, verdict, dbVars, execVars, loopVars>>

\* Step 2 without the short-circuit test: the judge is always called
EvalConfidenceNoShortCircuit ==
    /\ epc = "confidence"
    /\ \E o \in ConfidenceOutcomes :
          /\ calls' = Append(calls, "confidence")
          /\ confidence' = o.r
          /\ failed' = IF o.ok THEN failed ELSE failed \cup {"confidence"}
          /\ IF o.r.raised
             THEN epc' = "raised" /\ UNCHANGED verdict
             ELSE epc' = "judge" /\ UNCHANGED verdict
    /\ UNCHANGED <<cfg, chat, utc, stop, boot, venue, mom, scored, life, pipeVars, sentiment, dbVars, execVars, loopVars>>

\* Step 2: the confidence grader's call, then the short-circuit test
EvalConfidence ==
    /\ epc = "confidence"
    /\ \E o \in ConfidenceOutcomes :
          /\ calls' = Append(calls, "confidence")
          /\ confidence' = o.r
          /\ failed' = IF o.ok THEN failed ELSE failed \cup {"confidence"}
          /\ IF o.r.raised
             THEN epc' = "raised" /\ UNCHANGED verdict
             ELSE IF ShortCircuit(o.r.confidence, cfg.min_confidence)
             THEN epc' = "done" /\ verdict' = ShortCircuitVerdict
             ELSE epc' = "judge" /\ UNCHANGED verdict
    /\ UNCHANGED <<cfg, chat, utc, stop, boot, venue, mom, scored, life, pipeVars, sentiment, dbVars, execVars, loopVars>>

\* Step 3: the trade judge's call
EvalJudge ==
    /\ epc = "judge"
    /\ \E o \in JudgeOutcomes[cfg.max_position_size] :
          /\ calls' = Append(calls, "judge")
          /\ verdict' = o.r
          /\ epc' = IF o.r.raised THEN "raised" ELSE "done"
          /\ failed' = IF o.ok THEN failed ELSE failed \cup {"judge"}
    /\ UNCHANGED <<cfg, chat, utc, stop, boot, venue, mom, scored, life, pipeVars, sentiment, confidence, dbVars, execVars, loopVars>>

\* A caller of evaluate() outside the agent (tests/test_orchestrator.py)
EvaluateCall ==
    /\ epc \in {"idle", "done"}
    /\ epc' = "sentiment"
    /\ calls' = <<>>
    /\ sentiment' = NoSentiment
    /\ confidence' = NoConfidence
    /\ verdict' = NoVerdict
    /\ failed' = {}
    /\ UNCHANGED <<cfg, chat, utc, stop, boot, venue, mom, scored, life, pipeVars, dbVars, execVars, loopVars>>

(***************************************************************************)
(* storage/db.py and execution/position_tracker.py                         *)
(***************************************************************************)
\* SELECT * FROM trades WHERE closed_at IS NULL: the sizes of the open rows
get_open_trades(table) ==
    LET rows == SelectSeq(table, LAMBDA t : t.open)
    IN [i \in 1..Len(rows) |-> rows[i].size_usd]

\* can_trade without the total-exposure check
can_tradeNoExposure(open_trades, size_usd, c) ==
    IF Len(open_trades) >= c.max_open_positions
    THEN [ok |-> FALSE, reason |-> "count"]
    ELSE IF size_usd > c.max_position_size
    THEN [ok |-> FALSE, reason |-> "size"]
    ELSE [ok |-> TRUE, reason |-> "OK"]

\* can_trade with the size check before the count check
can_tradeSizeFirst(open_trades, size_usd, c) ==
    IF size_usd > c.max_position_size
    THEN [ok |-> FALSE, reason |-> "size"]
    ELSE IF Len(open_trades) >= c.max_open_positions
    THEN [ok |-> FALSE, reason |-> "count"]
    ELSE IF SumSeq(open_trades) + size_usd > c.max_capital
    THEN [ok |-> FALSE, reason |-> "exposure"]
    ELSE [ok |-> TRUE, reason |-> "OK"]

can_trade(open_trades, size_usd, c) ==
    IF Len(open_trades) >= c.max_open_positions
    THEN [ok |-> FALSE, reason |-> "count"]
    ELSE IF size_usd > c.max_position_size
    THEN [ok |-> FALSE, reason |-> "size"]
    ELSE IF SumSeq(open_trades) + size_usd > c.max_capital
    THEN [ok |-> FALSE, reason |-> "exposure"]
    ELSE [ok |-> TRUE, reason |-> "OK"]

get_available_capital(table, c) ==
    Max(0, c.max_capital - SumSeq(get_open_trades(table)))

OpenCount(table) == Len(get_open_trades(table))
Exposure(table)  == SumSeq(get_open_trades(table))

\* Database.close_trade, called by a settlement process outside the agent
CloseTrade ==
    /\ \E i \in 1..Len(trades) :
          /\ trades[i].open
          /\ trades' = [trades EXCEPT ![i].open = FALSE]
    /\ UNCHANGED <<cfg, chat, utc, stop, boot, venue, mom, scored, life, pipeVars, councilVars, signal_log, execVars, loopVars>>

(***************************************************************************)
(* execution/paper_trader.py                                               *)
(***************************************************************************)
Council == "council"
Testers == {"t1", "t2"}
Callers == {Council} \cup Testers

Sizes == {20, 30, 70}

\* the direction and the odds midpoint of the signal a decision carries
Quotes == {[direction |-> "UP", odds_midpoint |-> 4000],
           [direction |-> "DOWN", odds_midpoint |-> 6000]}

\* the decisions handed to execute(): the verdict's size and the signal's quote
Decisions ==
    {d \in [size : Sizes, quote : Quotes] : (d.size = 30) <=> (d.quote.direction = "DOWN")}

IdleCall == [pc |-> "idle", size |-> 0, symbol |-> "btcusdt",
             direction |-> "UP", odds_midpoint |-> 0, snap |-> <<>>,
             res |-> [ok |-> FALSE, reason |-> "none"], ret |-> "none"]

InFlight(c) == ex[c].pc # "idle"

\* the call has started and its risk check or its trade-record write is still
\* to come
Unwritten(c) == ex[c].pc \in {"called", "approved"}

\* as Side, but every order buys
SideAlwaysBuy(direction) == "BUY"

\* "OrderSide.BUY if signal.direction == "UP" else OrderSide.SELL"
Side(direction) == IF direction = "UP" THEN "BUY" ELSE "SELL"

\* TradeRecord(...) as execute() fills it: closed_at is None, the row is open
TradeRecord(call) ==
    [size_usd |-> call.size, symbol |-> call.symbol, side |-> Side(call.direction),
     entry_price |-> call.odds_midpoint, open |-> TRUE]

\* a log_trade that checks the limits again against the table it writes to
RecordTradeRechecked(table, call) ==
    IF can_trade(get_open_trades(table), call.size, cfg).ok
    THEN Append(table, TradeRecord(call))
    ELSE table

\* db.log_trade(record): the row execute() inserts
RecordTrade(table, call) == Append(table, TradeRecord(call))

\* "cooldown_until[signal.symbol] = now + self.config.COOLDOWN_SECONDS"
CooldownDeadline(now_, clock_, secs) == now_ + secs

\* Return with the cooldown set for every symbol at once
ReturnCoolsAll(c, order) ==
    IF c = Council
    THEN /\ lpc' = "get"
         /\ cooldown_until' =
               IF order
               THEN [sym \in Symbols |-> CooldownDeadline(now, clock, cfg.cooldown)]
               ELSE cooldown_until
         /\ hist' = IF order
                    THEN [hist EXCEPT !.exec_at[cur.symbol] = clock]
                    ELSE hist
         /\ UNCHANGED <<clock, signal_queue, cur, now, available>>
    ELSE UNCHANGED loopVars

\* execute() returns to its caller; for the council loop, the rest of the
\* iteration runs in the same step (no await before the next queue.get())
Return(c, order) ==
    IF c = Council
    THEN /\ lpc' = "get"
         /\ cooldown_until' =
               IF order
               THEN [cooldown_until EXCEPT ![cur.symbol] =
                        CooldownDeadline(now, clock, cfg.cooldown)]
               ELSE cooldown_until
         /\ hist' = IF order
                    THEN [hist EXCEPT !.exec_at[cur.symbol] = clock]
                    ELSE hist
         /\ UNCHANGED <<clock, signal_queue, cur, now, available>>
    ELSE UNCHANGED loopVars

\* execute(decision) entered by a caller outside the agent
ExecCall(c) ==
    /\ c \in Testers
    /\ ~InFlight(c)
    /\ Len(trades) + Cardinality({d \in Callers : InFlight(d)}) < MaxTrades
    /\ \E action \in {"TRADE", "SKIP"}, dec \in Decisions, sym \in {"btcusdt"} :
          IF action # "TRADE"
          THEN /\ ex' = [ex EXCEPT ![c] = [IdleCall EXCEPT !.ret = "None", !.size = 0]]
               /\ UNCHANGED overlap
          ELSE /\ ex' = [ex EXCEPT ![c] =
                            [IdleCall EXCEPT !.pc = "called", !.size = dec.size,
                                             !.symbol = sym,
                                             !.direction = dec.quote.direction,
                                             !.odds_midpoint = dec.quote.odds_midpoint,
                                             !.ret = "pending"]]
               /\ overlap' = (overlap \/ \E d \in Callers \ {c} : Unwritten(d))
    /\ UNCHANGED <<cfg, chat, utc, stop, boot, venue, mom, scored, life, pipeVars, councilVars, dbVars, loopVars>>

\* position_tracker.can_trade: the read of the open trades and the checks
ExecRead(c) ==
    /\ ex[c].pc = "called"
    /\ LET snap == get_open_trades(trades)
           res == can_trade(snap, ex[c].size, cfg)
       IN IF res.ok
          THEN /\ ex' = [ex EXCEPT ![c].pc = "approved", ![c].snap = snap, ![c].res = res]
               /\ UNCHANGED loopVars
          ELSE /\ ex' = [ex EXCEPT ![c].pc = "idle", ![c].snap = snap, ![c].res = res,
                                   ![c].ret = "None"]
               /\ Return(c, FALSE)
    /\ UNCHANGED <<cfg, chat, utc, stop, boot, venue, mom, scored, life, pipeVars, councilVars, dbVars, overlap>>

\* db.log_trade(record)
ExecLogTrade(c) ==
    /\ ex[c].pc = "approved"
    /\ trades' = RecordTrade(trades, ex[c])
    /\ ex' = [ex EXCEPT ![c].pc = "logged"]
    /\ UNCHANGED <<cfg, chat, utc, stop, boot, venue, mom, scored, life, pipeVars, councilVars, signal_log, overlap, loopVars>>

\* db.log_signal({... "council_action": "TRADE"}) and "return order"
ExecLogSignal(c) ==
    /\ ex[c].pc = "logged"
    /\ signal_log' = Append(signal_log, [symbol |-> ex[c].symbol, council_action |-> "TRADE"])
    /\ ex' = [ex EXCEPT ![c].pc = "idle", ![c].ret = "order"]
    /\ Return(c, TRUE)
    /\ UNCHANGED <<cfg, chat, utc, stop, boot, venue, mom, scored, life, pipeVars, councilVars, trades, overlap>>

(***************************************************************************)
(* execution/polymarket_client.py, execution/order_manager.py              *)
(*                                                                         *)
(* get_midpoint() returns None when the venue call or float() raised, else *)
(* the number the venue gave; create_and_post_order() returns None when    *)
(* signing or posting raised, else the venue's response.                   *)
(***************************************************************************)
MidpointAnswers ==
    {[ok |-> FALSE, mid |-> 0], [ok |-> TRUE, mid |-> -100], [ok |-> TRUE, mid |-> 0],
     [ok |-> TRUE, mid |-> 4000], [ok |-> TRUE, mid |-> 6000]}
NoMidpoint == [ok |-> FALSE, mid |-> 0]

\* the response carries an "orderID" or not
PostAnswers ==
    {[ok |-> FALSE, order_id |-> FALSE], [ok |-> TRUE, order_id |-> TRUE],
     [ok |-> TRUE, order_id |-> FALSE]}
NoResponse == [ok |-> FALSE, order_id |-> FALSE]

IdleVenue == [pc |-> "idle", size |-> 0, symbol |-> "none", direction |-> "UP",
              midpoint |-> NoMidpoint, resp |-> NoResponse,
              why |-> "none", ret |-> "none"]

\* the midpoint test with zero let through
MidpointRefusedLt(m) == ~m.ok \/ m.mid < 0

\* "if midpoint is None or midpoint <= 0"
MidpointRefused(m) == ~m.ok \/ m.mid <= 0

\* the TradeRecord OrderManager.execute builds: is_paper False, entry_price
\* the venue's midpoint
LiveTradeRecord(call) ==
    [size_usd |-> call.size, symbol |-> call.symbol, side |-> Side(call.direction),
     entry_price |-> call.midpoint.mid, open |-> TRUE]

\* OrderManager.execute is called; the verdict's action is tested
LiveCall ==
    /\ venue.pc = "idle"
    /\ Len(trades) < MaxTrades
    /\ \E action \in {"TRADE", "SKIP"}, dec \in Decisions :
          IF action # "TRADE"
          THEN venue' = [IdleVenue EXCEPT !.why = "skip", !.ret = "None"]
          ELSE venue' = [IdleVenue EXCEPT !.pc = "called", !.size = dec.size,
                                          !.symbol = "btcusdt",
                                          !.direction = dec.quote.direction,
                                          !.ret = "pending"]
    /\ UNCHANGED <<cfg, chat, utc, stop, boot, mom, scored, life, pipeVars, councilVars, dbVars, execVars, loopVars>>

\* can_trade returns; when it approves, the midpoint is fetched and the order
\* posted in the same step (both calls are synchronous), up to the await of
\* db.log_trade
LiveRead ==
    /\ venue.pc = "called"
    /\ LET res == can_trade(get_open_trades(trades), venue.size, cfg)
       IN IF ~res.ok
          THEN venue' = [venue EXCEPT !.pc = "idle", !.why = "risk", !.ret = "None"]
          ELSE \E m \in MidpointAnswers :
                  IF MidpointRefused(m)
                  THEN venue' = [venue EXCEPT !.pc = "idle", !.midpoint = m,
                                              !.why = "midpoint", !.ret = "None"]
                  ELSE \E r \in PostAnswers :
                          IF ~r.ok
                          THEN venue' = [venue EXCEPT !.pc = "idle", !.midpoint = m,
                                                      !.resp = r, !.why = "post",
                                                      !.ret = "None"]
                          ELSE venue' = [venue EXCEPT !.pc = "posted", !.midpoint = m,
                                                      !.resp = r]
    /\ UNCHANGED <<cfg, chat, utc, stop, boot, mom, scored, life, pipeVars, councilVars, dbVars, execVars, loopVars>>

\* "trade_id = await self.db.log_trade(record)", then "return order"
LiveLogTrade ==
    /\ venue.pc = "posted"
    /\ trades' = Append(trades, LiveTradeRecord(venue))
    /\ venue' = [venue EXCEPT !.pc = "idle", !.why = "none", !.ret = "order"]
    /\ UNCHANGED <<cfg, chat, utc, stop, boot, mom, scored, life, pipeVars, councilVars, signal_log, execVars, loopVars>>

(***************************************************************************)
(* agent.py: TradingAgent._council_loop                                    *)
(***************************************************************************)
\* the cooldown test with the comparison reversed
InCooldownReversed(now_, last) == now_ > last

\* "if now < last"
InCooldown(now_, last) == now_ < last

\* the monotonic clock advances while tasks are suspended
Tick ==
    /\ clock < MaxTime
    /\ clock' = clock + 1
    /\ UNCHANGED <<cfg, chat, utc, stop, boot, venue, mom, scored, life, pipeVars, councilVars, dbVars, execVars, signal_queue, lpc, cur, now,
                   available, cooldown_until, hist>>

\* the DivergenceSignal the detector has for a symbol
SignalFor(sym) ==
    IF sym = "btcusdt"
    THEN [symbol |-> sym, direction |-> "UP", odds_midpoint |-> 4000]
    ELSE [symbol |-> sym, direction |-> "DOWN", odds_midpoint |-> 6000]

\* the detector puts a DivergenceSignal on the signal queue
SignalPut ==
    /\ boot.started
    /\ ~life.cancelled
    /\ hist.produced < MaxSignals
    /\ Len(signal_queue) < SignalCap
    /\ \E sym \in Symbols :
          signal_queue' = Append(signal_queue, SignalFor(sym))
    /\ hist' = [hist EXCEPT !.produced = @ + 1]
    /\ UNCHANGED <<cfg, chat, utc, stop, boot, venue, mom, scored, life, pipeVars, councilVars, dbVars, execVars, clock, lpc, cur, now, available,
                   cooldown_until>>

\* signal_queue.get() returns; the cooldown check
CouncilGet ==
    /\ boot.started
    /\ lpc = "get"
    /\ InGet("council")
    /\ LeaveGet("council")
    /\ signal_queue # <<>>
    /\ LET signal == Head(signal_queue)
       IN /\ signal_queue' = Tail(signal_queue)
          /\ cur' = signal
          /\ now' = clock
          /\ IF InCooldown(clock, cooldown_until[signal.symbol])
             THEN lpc' = "get" /\ hist' = [hist EXCEPT !.rejected = @ + 1]
             ELSE lpc' = "log" /\ UNCHANGED hist
    /\ UNCHANGED <<cfg, chat, utc, boot, venue, mom, scored, life, pipeVars, councilVars, dbVars, execVars, clock, available, cooldown_until>>

\* db.log_signal({...}): council_action defaults to SKIP
CouncilLogSignal ==
    /\ lpc = "log"
    /\ signal_log' = Append(signal_log, [symbol |-> cur.symbol, council_action |-> "SKIP"])
    /\ lpc' = "capital"
    /\ UNCHANGED <<cfg, chat, utc, stop, boot, venue, mom, scored, life, pipeVars, councilVars, trades, execVars, clock, signal_queue, cur, now,
                   available, cooldown_until, hist>>

\* position_tracker.get_available_capital(), then evaluate() runs to its first call
CouncilCapital ==
    /\ lpc = "capital"
    /\ available' = get_available_capital(trades, cfg)
    /\ hist' = [hist EXCEPT !.cap_reads = @ + 1]
    /\ lpc' = "evaluate"
    /\ epc' = "sentiment"
    /\ calls' = <<>>
    /\ sentiment' = NoSentiment
    /\ confidence' = NoConfidence
    /\ verdict' = NoVerdict
    /\ failed' = {}
    /\ UNCHANGED <<cfg, chat, utc, stop, boot, venue, mom, scored, life, pipeVars, dbVars, execVars, clock, signal_queue, cur, now,
                   cooldown_until>>

\* CouncilDecision with execute() started as a task of its own and not
\* awaited: the loop goes back to its get while the call is in flight
CouncilDecisionDetached ==
    /\ lpc = "evaluate"
    /\ epc \in {"done", "raised"}
    /\ epc' = "idle"
    /\ calls' = <<>>
    /\ sentiment' = NoSentiment
    /\ confidence' = NoConfidence
    /\ verdict' = NoVerdict
    /\ failed' = {}
    /\ IF epc = "raised"
       THEN lpc' = "dead" /\ UNCHANGED execVars
       ELSE IF verdict.action = "TRADE"
       THEN /\ lpc' = "get"
            /\ ex' = [ex EXCEPT ![Council] =
                         [IdleCall EXCEPT !.pc = "called", !.size = verdict.size_usd,
                                          !.symbol = cur.symbol,
                                          !.direction = cur.direction,
                                          !.odds_midpoint = cur.odds_midpoint,
                                          !.ret = "pending"]]
            /\ overlap' = (overlap \/ InFlight(Council))
       ELSE lpc' = "get" /\ UNCHANGED execVars
    /\ UNCHANGED <<cfg, chat, utc, stop, boot, venue, mom, scored, life, pipeVars, dbVars, clock, signal_queue, cur, now, available,
                   cooldown_until, hist>>

\* evaluate() returned (or raised) and its frame is gone; execute() runs to
\* its risk check
CouncilDecision ==
    /\ lpc = "evaluate"
    /\ epc \in {"done", "raised"}
    /\ epc' = "idle"
    /\ calls' = <<>>
    /\ sentiment' = NoSentiment
    /\ confidence' = NoConfidence
    /\ verdict' = NoVerdict
    /\ failed' = {}
    /\ IF epc = "raised"
       THEN lpc' = "dead" /\ UNCHANGED execVars
       ELSE IF verdict.action = "TRADE"
       THEN /\ lpc' = "execute"
            /\ ex' = [ex EXCEPT ![Council] =
                         [IdleCall EXCEPT !.pc = "called", !.size = verdict.size_usd,
                                          !.symbol = cur.symbol,
                                          !.direction = cur.direction,
                                          !.odds_midpoint = cur.odds_midpoint,
                                          !.ret = "pending"]]
            /\ overlap' = (overlap \/ \E d \in Testers : Unwritten(d))
       ELSE lpc' = "get" /\ UNCHANGED execVars
    /\ UNCHANGED <<cfg, chat, utc, stop, boot, venue, mom, scored, life, pipeVars, dbVars, clock, signal_queue, cur, now, available,
                   cooldown_until, hist>>

(***************************************************************************)
(* feeds: the price feed and the odds feed                                 *)
(*                                                                         *)
(* Prices are whole USD.  Momentum and edge are in hundredths of a percent *)
(* (30 is the source's 0.3), odds and scores in ten-thousandths (5000 is   *)
(* 0.50).  The division of get_momentum is the integer one: the model's    *)
(* momentum is the source's rounded down to a hundredth of a percent.      *)
(***************************************************************************)
MaxTicks == 3        \* price ticks the exchange sends
MaxOdds == 2         \* odds snapshots the poller fetches
PriceCap == 1        \* price_queue's maxsize (1000), scaled
OddsCap == 1         \* odds_queue's maxsize (1000), scaled
PairedCap == 1       \* paired_queue's maxsize (500), scaled
Window == 2          \* MOMENTUM_WINDOW (20), scaled
MaxUtc == 2          \* the wall clock's range

\* the prices the exchange quotes for a symbol
Prices(sym) == IF sym = "btcusdt" THEN {100, 125} ELSE {100}
Midpoints == {5000}

\* the markets market discovery returned, in order: (token_id, symbol)
Markets == <<[token_id |-> "A", symbol |-> "btcusdt"],
             [token_id |-> "B", symbol |-> "btcusdt"]>>
Tokens == {Markets[i].token_id : i \in DOMAIN Markets}

\* as symbol_to_markets, but each market of a symbol replaces the one before
symbol_to_marketsLast(sym) ==
    LET ms == SelectSeq(Markets, LAMBDA m : m.symbol = sym)
    IN IF ms = <<>> THEN <<>> ELSE <<ms[Len(ms)].token_id>>

\* FeedAggregator.__init__: "self._symbol_to_markets.setdefault(m.symbol, []).append(m)"
symbol_to_markets(sym) ==
    LET ms == SelectSeq(Markets, LAMBDA m : m.symbol = sym)
    IN [i \in 1..Len(ms) |-> ms[i].token_id]

\* a PriceTick (symbol, price), its number, and the momentum the feed computed
\* and logged for it when it was recorded
NoTick == [symbol |-> "none", price |-> 0, id |-> 0, momentum |-> 0, volume_24h |-> 0]
NoOdds == [token_id |-> "none", symbol |-> "none", midpoint |-> 0, timestamp |-> 0,
           seq |-> 0]
NoPair == [tick |-> NoTick, odds |-> NoOdds]
NoSignal == [symbol |-> "none"]

NoMomentum == [log |-> [s \in Symbols |-> <<>>], symbol |-> "none", value |-> 0]

\* a deque without maxlen
DequeAppendUnbounded(history, price) == Append(history, price)

\* a window that, once full, discards the new price instead of the oldest
DequeAppendKeepsOldest(history, price) ==
    IF Len(history) < Window THEN Append(history, price)
    ELSE history

\* deque(maxlen=MOMENTUM_WINDOW).append(price)
DequeAppend(history, price) ==
    IF Len(history) < Window THEN Append(history, price)
    ELSE Append(Tail(history), price)

\* "self._price_history.get(symbol, deque())"
HistoryOf(symbol) ==
    IF symbol \in DOMAIN price_history THEN price_history[symbol] ELSE <<>>

\* str.lower() on the symbols asked for
Lower(symbol) == IF symbol = "BTCUSDT" THEN "btcusdt" ELSE symbol

\* BinanceFeed._calc_momentum, called right after the price was appended
calc_momentum(history, current_price) ==
    IF Len(history) < 2 THEN 0
    ELSE IF history[1] = 0 THEN 0
    ELSE ((current_price - history[1]) * 10000) \div history[1]

\* BinanceFeed.get_momentum
get_momentum(history) ==
    IF Len(history) < 2 THEN 0
    ELSE IF history[1] = 0 THEN 0
    ELSE ((Last(history) - history[1]) * 10000) \div history[1]

\* what the exchange may quote when the feed is driven on its own
TickerPrices == {0, 100, 125}
AskedSymbols == {"btcusdt", "BTCUSDT", "ethusdt", "dogeusdt"}
Recorded == Len(mom.log["btcusdt"]) + Len(mom.log["ethusdt"])

\* "self._price_history[symbol].append(price)" of the websocket loop
RecordPrice ==
    /\ Recorded < MaxTicks
    /\ \E sym \in Symbols, price \in TickerPrices :
          /\ price_history' = [price_history EXCEPT ![sym] = DequeAppend(@, price)]
          /\ mom' = [mom EXCEPT !.log[sym] = Append(@, price)]
    /\ UNCHANGED <<cfg, chat, utc, stop, boot, venue, scored, life, councilVars, dbVars, execVars, loopVars,
                   binance, odds_feed, price_queue, odds_queue, aggVars, det>>

\* BinanceFeed.get_momentum(symbol) is called
AskMomentum ==
    /\ \E sym \in AskedSymbols :
          mom' = [mom EXCEPT !.symbol = sym,
                             !.value = get_momentum(HistoryOf(Lower(sym)))]
    /\ UNCHANGED <<cfg, chat, utc, stop, boot, venue, scored, life, councilVars, dbVars, execVars, loopVars,
                   pipeVars>>

\* the "v" field of the ticker messages: the 24 h volume, in units
TickerVolumes == {300}

\* the websocket loop with put_nowait in place of "await put": a tick that finds
\* the queue full is discarded
BinanceRecvNowait ==
    /\ boot.started
    /\ binance.pending = NoTick
    /\ binance.made < MaxTicks
    /\ \E sym \in Symbols : \E price \in Prices(sym), volume \in TickerVolumes :
          LET tick == [symbol |-> sym, price |-> price, id |-> binance.made + 1,
                       momentum |-> calc_momentum(DequeAppend(price_history[sym], price),
                                                  price),
                       volume_24h |-> volume]
          IN /\ price_history' = [price_history EXCEPT ![sym] = DequeAppend(@, price)]
             /\ binance' = [binance EXCEPT !.made = @ + 1]
             /\ IF Len(price_queue) < PriceCap
                THEN price_queue' = Append(price_queue, tick)
                ELSE UNCHANGED price_queue
    /\ UNCHANGED <<cfg, chat, utc, stop, boot, venue, mom, scored, life, councilVars, dbVars, execVars, loopVars, odds_feed, odds_queue,
                   aggVars, det>>

\* the exchange sends a ticker message: the price joins the history, then the
\* tick is put on the price queue (the put suspends the feed while it is full)
BinanceRecv ==
    /\ boot.started
    /\ binance.pending = NoTick
    /\ binance.made < MaxTicks
    /\ \E sym \in Symbols : \E price \in Prices(sym), volume \in TickerVolumes :
          LET tick == [symbol |-> sym, price |-> price, id |-> binance.made + 1,
                       momentum |-> calc_momentum(DequeAppend(price_history[sym], price),
                                                  price),
                       volume_24h |-> volume]
          IN /\ price_history' = [price_history EXCEPT ![sym] = DequeAppend(@, price)]
             /\ IF Len(price_queue) < PriceCap
                THEN /\ price_queue' = Append(price_queue, tick)
                     /\ binance' = [binance EXCEPT !.made = @ + 1]
                ELSE /\ binance' = [made |-> binance.made + 1, pending |-> tick]
                     /\ UNCHANGED price_queue
    /\ UNCHANGED <<cfg, chat, utc, stop, boot, venue, mom, scored, life, councilVars, dbVars, execVars, loopVars, odds_feed, odds_queue,
                   aggVars, det>>

\* the suspended put of the price feed completes
BinancePut ==
    /\ binance.pending # NoTick
    /\ Len(price_queue) < PriceCap
    /\ price_queue' = Append(price_queue, binance.pending)
    /\ binance' = [binance EXCEPT !.pending = NoTick]
    /\ UNCHANGED <<cfg, chat, utc, stop, boot, venue, mom, scored, life, councilVars, dbVars, execVars, loopVars, price_history, odds_feed,
                   odds_queue, aggVars, det>>

\* the host's wall clock moves, forward or (when it is corrected) backward
UtcSet ==
    /\ \E t \in 0..MaxUtc : t # utc /\ utc' = t
    /\ UNCHANGED <<cfg, chat, stop, boot, venue, mom, scored, life, councilVars, dbVars, execVars, loopVars, pipeVars>>

\* PolymarketOddsFeed: a midpoint was fetched for a market and is put on the
\* odds queue
OddsPoll ==
    /\ boot.started
    /\ odds_feed.pending = NoOdds
    /\ odds_feed.made < MaxOdds
    /\ \E k \in DOMAIN Markets, mid \in Midpoints :
          LET snapshot == [token_id |-> Markets[k].token_id, symbol |-> Markets[k].symbol,
                           midpoint |-> mid, timestamp |-> utc,
                           seq |-> odds_feed.made + 1]
          IN IF Len(odds_queue) < OddsCap
             THEN /\ odds_queue' = Append(odds_queue, snapshot)
                  /\ odds_feed' = [odds_feed EXCEPT !.made = @ + 1]
             ELSE /\ odds_feed' = [made |-> odds_feed.made + 1, pending |-> snapshot]
                  /\ UNCHANGED odds_queue
    /\ UNCHANGED <<cfg, chat, utc, stop, boot, venue, mom, scored, life, councilVars, dbVars, execVars, loopVars, price_history, binance,
                   price_queue, aggVars, det>>

\* the suspended put of the odds feed completes
OddsPut ==
    /\ odds_feed.pending # NoOdds
    /\ Len(odds_queue) < OddsCap
    /\ odds_queue' = Append(odds_queue, odds_feed.pending)
    /\ odds_feed' = [odds_feed EXCEPT !.pending = NoOdds]
    /\ UNCHANGED <<cfg, chat, utc, stop, boot, venue, mom, scored, life, councilVars, dbVars, execVars, loopVars, price_history, binance,
                   price_queue, aggVars, det>>

(***************************************************************************)
(* feeds/feed_aggregator.py                                                *)
(***************************************************************************)
\* _consume_odds keeping the entry in the cache when its timestamp is newer
ConsumeOddsNewest ==
    /\ InGet("odds")
    /\ LeaveGet("odds")
    /\ odds_queue # <<>>
    /\ LET odds == Head(odds_queue)
       IN /\ latest_odds' = IF latest_odds[odds.token_id].timestamp > odds.timestamp
                            THEN latest_odds
                            ELSE [latest_odds EXCEPT ![odds.token_id] = odds]
          /\ odds_seen' = [odds_seen EXCEPT ![odds.token_id] = Max(@, odds.timestamp)]
    /\ odds_queue' = Tail(odds_queue)
    /\ UNCHANGED <<cfg, chat, utc, boot, venue, mom, scored, life, councilVars, dbVars, execVars, loopVars, price_history,
                   binance, odds_feed, price_queue, agg, paired_queue, lookups, emitted, det>>

\* _consume_odds run in the same task as _consume_prices: it does not run
\* while the price loop is suspended in its put
ConsumeOddsSameTask ==
    /\ agg.pending = NoPair
    /\ InGet("odds")
    /\ LeaveGet("odds")
    /\ odds_queue # <<>>
    /\ LET odds == Head(odds_queue)
       IN /\ latest_odds' = [latest_odds EXCEPT ![odds.token_id] = odds]
          /\ odds_seen' = [odds_seen EXCEPT ![odds.token_id] = Max(@, odds.timestamp)]
    /\ odds_queue' = Tail(odds_queue)
    /\ UNCHANGED <<cfg, chat, utc, boot, venue, mom, scored, life, councilVars, dbVars, execVars, loopVars, price_history,
                   binance, odds_feed, price_queue, agg, paired_queue, lookups, emitted, det>>

\* _consume_odds: "self._latest_odds[odds.token_id] = odds"
ConsumeOdds ==
    /\ InGet("odds")
    /\ LeaveGet("odds")
    /\ odds_queue # <<>>
    /\ LET odds == Head(odds_queue)
       IN /\ latest_odds' = [latest_odds EXCEPT ![odds.token_id] = odds]
          /\ odds_seen' = [odds_seen EXCEPT ![odds.token_id] = Max(@, odds.timestamp)]
    /\ odds_queue' = Tail(odds_queue)
    /\ UNCHANGED <<cfg, chat, utc, boot, venue, mom, scored, life, councilVars, dbVars, execVars, loopVars, price_history,
                   binance, odds_feed, price_queue, agg, paired_queue, lookups, emitted, det>>

\* the markets of the tick's symbol that have a cached entry
CachedMarkets(sym, cache) ==
    {symbol_to_markets(sym)[i] : i \in {j \in DOMAIN symbol_to_markets(sym) :
                                           cache[symbol_to_markets(sym)[j]] # NoOdds}}

\* as Pairing, but a market without a cached entry is paired all the same
RECURSIVE PairingUnchecked(_, _, _, _)
PairingUnchecked(tick, i, cache, st) ==
    LET markets == symbol_to_markets(tick.symbol)
    IN IF i > Len(markets)
       THEN [st EXCEPT !.i = 0, !.pending = NoPair, !.tick = NoTick]
       ELSE LET paired == [tick |-> tick, odds |-> cache[markets[i]]]
                looked == [st EXCEPT !.lookups =
                              Append(@, [tick |-> tick, market |-> markets[i],
                                         odds |-> paired.odds])]
            IN IF Len(st.queue) < PairedCap
               THEN PairingUnchecked(tick, i + 1, cache,
                                     [looked EXCEPT !.queue = Append(@, paired),
                                                    !.emitted = Append(@, paired)])
               ELSE [looked EXCEPT !.i = i, !.pending = paired, !.tick = tick]

\* the for-loop of _consume_prices from its i-th market on: it runs until the
\* markets are exhausted or a put finds the paired queue full.  st carries
\* the queue and the two histories.
RECURSIVE Pairing(_, _, _, _)
Pairing(tick, i, cache, st) ==
    LET markets == symbol_to_markets(tick.symbol)
    IN IF i > Len(markets)
       THEN [st EXCEPT !.i = 0, !.pending = NoPair, !.tick = NoTick]
       ELSE LET odds == cache[markets[i]]
                looked == [st EXCEPT !.lookups =
                              Append(@, [tick |-> tick, market |-> markets[i],
                                         odds |-> odds])]
            IN IF odds = NoOdds
               THEN Pairing(tick, i + 1, cache, looked)
               ELSE LET paired == [tick |-> tick, odds |-> odds]
                    IN IF Len(st.queue) < PairedCap
                       THEN Pairing(tick, i + 1, cache,
                                    [looked EXCEPT !.queue = Append(@, paired),
                                                   !.emitted = Append(@, paired)])
                       ELSE [looked EXCEPT !.i = i, !.pending = paired, !.tick = tick]

PairingState ==
    [queue |-> paired_queue, lookups |-> lookups, emitted |-> emitted,
     i |-> 0, pending |-> NoPair, tick |-> NoTick]

SetPairing(st) ==
    /\ paired_queue' = st.queue
    /\ lookups' = st.lookups
    /\ emitted' = st.emitted
    /\ agg' = [agg EXCEPT !.i = st.i, !.pending = st.pending, !.tick = st.tick]

\* _consume_prices: price_queue.get() returns and the markets are walked
ConsumePrices ==
    /\ agg.pending = NoPair
    /\ InGet("prices")
    /\ LeaveGet("prices")
    /\ price_queue # <<>>
    /\ price_queue' = Tail(price_queue)
    /\ LET tick == Head(price_queue)
           st == Pairing(tick, 1, latest_odds, PairingState)
       IN /\ paired_queue' = st.queue
          /\ lookups' = st.lookups
          /\ emitted' = st.emitted
          /\ agg' = [i |-> st.i, pending |-> st.pending, tick |-> st.tick,
                     seen |-> Append(agg.seen,
                                     [tick |-> tick,
                                      cached |-> CachedMarkets(tick.symbol, latest_odds)])]
    /\ UNCHANGED <<cfg, chat, utc, boot, venue, mom, scored, life, councilVars, dbVars, execVars, loopVars, price_history, binance,
                   odds_feed, odds_queue, latest_odds, odds_seen, det>>

\* the suspended "await self.signal_queue.put(paired)" completes and the walk
\* goes on with the markets that are left
ConsumePricesResume ==
    /\ agg.pending # NoPair
    /\ Len(paired_queue) < PairedCap
    /\ LET st == Pairing(agg.tick, agg.i + 1, latest_odds,
                         [PairingState EXCEPT !.queue = Append(@, agg.pending),
                                              !.emitted = Append(@, agg.pending)])
       IN SetPairing(st)
    /\ UNCHANGED <<cfg, chat, utc, stop, boot, venue, mom, scored, life, councilVars, dbVars, execVars, loopVars, price_history, binance,
                   odds_feed, price_queue, odds_queue, latest_odds, odds_seen, det>>

(***************************************************************************)
(* strategy/signal.py, strategy/thresholds.py, strategy/divergence_detector.py *)
(***************************************************************************)
Abs(x) == IF x < 0 THEN -x ELSE x

MIN_MOMENTUM_PCT == 30       \* 0.3 %
OddsPerMomentum == 3         \* "momentum_pct * 0.03": ten-thousandths of odds per hundredth of a percent
WEIGHT_EDGE == 5000          \* 0.5
WEIGHT_MOMENTUM == 3000      \* 0.3
WEIGHT_VOLUME == 2000        \* 0.2

\* compute_implied_odds without its clamp
compute_implied_oddsUnclamped(current_odds, momentum_pct) ==
    current_odds + momentum_pct * OddsPerMomentum

\* compute_implied_odds: clamped to [0.01, 0.99]
compute_implied_odds(current_odds, momentum_pct) ==
    Max(100, Min(9900, current_odds + momentum_pct * OddsPerMomentum))

\* score_edge * WEIGHT_EDGE: saturates at 10 %
score_edge(edge_pct) == Min((Abs(edge_pct) * WEIGHT_EDGE) \div 1000, WEIGHT_EDGE)

\* score_momentum * WEIGHT_MOMENTUM: saturates at 5 %
score_momentum(momentum_pct) ==
    Min((Abs(momentum_pct) * WEIGHT_MOMENTUM) \div 500, WEIGHT_MOMENTUM)

\* score_volume without "min(..., 1.0)"
score_volumeUnsaturated(volume_24h, avg_volume) ==
    IF avg_volume <= 0 THEN 0
    ELSE IF 2 * volume_24h < 3 * avg_volume THEN 0
    ELSE ((2 * volume_24h - 3 * avg_volume) * WEIGHT_VOLUME) \div (7 * avg_volume)

\* score_volume * WEIGHT_VOLUME: 0 below 1.5 times the average, (ratio - 1.5) / 3.5
\* above, saturating at 5 times
score_volume(volume_24h, avg_volume) ==
    IF avg_volume <= 0 THEN 0
    ELSE IF 2 * volume_24h < 3 * avg_volume THEN 0
    ELSE Min(((2 * volume_24h - 3 * avg_volume) * WEIGHT_VOLUME) \div (7 * avg_volume),
             WEIGHT_VOLUME)

\* composite_score; the detector passes no avg_volume, which then is 0.0
composite_score(edge_pct, momentum_pct, volume_24h, avg_volume) ==
    score_edge(edge_pct) + score_momentum(momentum_pct)
        + score_volume(volume_24h, avg_volume)

NoScore == [edge_pct |-> 0, momentum_pct |-> 0, volume_24h |-> 0, avg_volume |-> 0,
            score |-> 0]

\* the arguments composite_score is called with: edge and momentum in
\* hundredths of a percent, volumes in units
ScoreEdges == {-1500, -1000, -300, 0, 500, 1000, 2000}
ScoreMomenta == {-600, -500, -100, 0, 250, 500, 900}
ScoreVolumes == {0, 100, 150, 300, 500, 700}
ScoreAverages == {0, 100}

\* composite_score(edge_pct, momentum_pct, volume_24h, avg_volume) is called
ScoreCall ==
    /\ \E e \in ScoreEdges, m \in ScoreMomenta, v \in ScoreVolumes, a \in ScoreAverages :
          scored' = [edge_pct |-> e, momentum_pct |-> m, volume_24h |-> v,
                     avg_volume |-> a, score |-> composite_score(e, m, v, a)]
    /\ UNCHANGED <<cfg, chat, utc, stop, boot, venue, mom, life, councilVars, dbVars, execVars,
                   loopVars, pipeVars>>

\* Evaluate without the momentum test
EvaluateAnyMomentum(paired, history, c) ==
    LET momentum == get_momentum(history)
        implied == compute_implied_odds(paired.odds.midpoint, momentum)
        edge_pct == implied - paired.odds.midpoint
        score == composite_score(edge_pct, momentum, paired.tick.volume_24h, 0)
    IN IF Abs(edge_pct) < c.min_edge_pct THEN NoSignal
       ELSE IF score < c.min_signal_score THEN NoSignal
       ELSE [symbol |-> paired.tick.symbol, price |-> paired.tick.price,
             price_momentum_pct |-> momentum, odds_midpoint |-> paired.odds.midpoint,
             implied_fair_odds |-> implied, edge_pct |-> edge_pct,
             signal_score |-> score,
             direction |-> IF momentum > 0 THEN "UP" ELSE "DOWN",
             token_id |-> paired.odds.token_id]

\* Evaluate with the direction taken from the sign of the odds midpoint's
\* distance to one half
EvaluateDirectionByOdds(paired, history, c) ==
    LET momentum == get_momentum(history)
        implied == compute_implied_odds(paired.odds.midpoint, momentum)
        edge_pct == implied - paired.odds.midpoint
        score == composite_score(edge_pct, momentum, paired.tick.volume_24h, 0)
    IN IF Abs(momentum) < MIN_MOMENTUM_PCT THEN NoSignal
       ELSE IF Abs(edge_pct) < c.min_edge_pct THEN NoSignal
       ELSE IF score < c.min_signal_score THEN NoSignal
       ELSE [symbol |-> paired.tick.symbol, price |-> paired.tick.price,
             price_momentum_pct |-> momentum, odds_midpoint |-> paired.odds.midpoint,
             implied_fair_odds |-> implied, edge_pct |-> edge_pct,
             signal_score |-> score,
             direction |-> IF paired.odds.midpoint < 5000 THEN "UP" ELSE "DOWN",
             token_id |-> paired.odds.token_id]

\* Evaluate passing an average volume of 100 units to composite_score
EvaluateWithAverage(paired, history, c) ==
    LET momentum == get_momentum(history)
        implied == compute_implied_odds(paired.odds.midpoint, momentum)
        edge_pct == implied - paired.odds.midpoint
        score == composite_score(edge_pct, momentum, paired.tick.volume_24h, 100)
    IN IF Abs(momentum) < MIN_MOMENTUM_PCT THEN NoSignal
       ELSE IF Abs(edge_pct) < c.min_edge_pct THEN NoSignal
       ELSE IF score < c.min_signal_score THEN NoSignal
       ELSE [symbol |-> paired.tick.symbol, price |-> paired.tick.price,
             price_momentum_pct |-> momentum, odds_midpoint |-> paired.odds.midpoint,
             implied_fair_odds |-> implied, edge_pct |-> edge_pct,
             signal_score |-> score,
             direction |-> IF momentum > 0 THEN "UP" ELSE "DOWN",
             token_id |-> paired.odds.token_id]

\* DivergenceDetector._evaluate: the signal, or NoSignal; composite_score gets
\* no avg_volume, which then is its default 0.0
Evaluate(paired, history, c) ==
    LET momentum == get_momentum(history)
        implied == compute_implied_odds(paired.odds.midpoint, momentum)
        edge_pct == implied - paired.odds.midpoint
        score == composite_score(edge_pct, momentum, paired.tick.volume_24h, 0)
    IN IF Abs(momentum) < MIN_MOMENTUM_PCT THEN NoSignal
       ELSE IF Abs(edge_pct) < c.min_edge_pct THEN NoSignal
       ELSE IF score < c.min_signal_score THEN NoSignal
       ELSE [symbol |-> paired.tick.symbol, price |-> paired.tick.price,
             price_momentum_pct |-> momentum, odds_midpoint |-> paired.odds.midpoint,
             implied_fair_odds |-> implied, edge_pct |-> edge_pct,
             signal_score |-> score,
             direction |-> IF momentum > 0 THEN "UP" ELSE "DOWN",
             token_id |-> paired.odds.token_id]

\* DivergenceDetector.start: paired_queue.get() returns, the pair is
\* evaluated and a signal, if any, is put on the signal queue
DetectorGet ==
    /\ det = NoSignal
    /\ InGet("detector")
    /\ LeaveGet("detector")
    /\ paired_queue # <<>>
    /\ paired_queue' = Tail(paired_queue)
    /\ LET paired == Head(paired_queue)
           signal == Evaluate(paired, price_history[paired.tick.symbol], cfg)
       IN IF signal = NoSignal
          THEN UNCHANGED <<signal_queue, det>>
          ELSE IF Len(signal_queue) < SignalCap
          THEN signal_queue' = Append(signal_queue, signal) /\ UNCHANGED det
          ELSE det' = signal /\ UNCHANGED signal_queue
    /\ UNCHANGED <<cfg, chat, utc, boot, venue, mom, scored, life, councilVars, dbVars, execVars, clock, lpc, cur, now, available,
                   cooldown_until, hist, feedVars, latest_odds, agg, lookups, emitted,
                   odds_seen>>

\* DetectorPut waiting, beyond room on the signal queue, for the paired queue to
\* be empty: the detector's put would depend on the queue it drains itself
DetectorPutWhenDrained ==
    /\ det # NoSignal
    /\ Len(signal_queue) < SignalCap
    /\ paired_queue = <<>>
    /\ signal_queue' = Append(signal_queue, det)
    /\ det' = NoSignal
    /\ UNCHANGED <<cfg, chat, utc, stop, boot, venue, mom, scored, life, councilVars, dbVars, execVars, clock, lpc, cur, now, available,
                   cooldown_until, hist, feedVars, aggVars>>

\* the suspended "await self.signal_queue.put(signal)" of the detector completes
DetectorPut ==
    /\ det # NoSignal
    /\ Len(signal_queue) < SignalCap
    /\ signal_queue' = Append(signal_queue, det)
    /\ det' = NoSignal
    /\ UNCHANGED <<cfg, chat, utc, stop, boot, venue, mom, scored, life, councilVars, dbVars, execVars, clock, lpc, cur, now, available,
                   cooldown_until, hist, feedVars, aggVars>>

(***************************************************************************)
(* agent.py: shutdown                                                      *)
(***************************************************************************)
\* the loop is at the top of its "while", not inside an iteration
AtTop(loop) ==
    CASE loop = "odds" -> TRUE
      [] loop = "prices" -> agg.pending = NoPair
      [] loop = "detector" -> det = NoSignal
      [] loop = "council" -> lpc = "get"

\* the loop's "while" test has failed and the coroutine has returned
Terminated(loop) == AtTop(loop) /\ ~InGet(loop)

\* TradingAgent.shutdown(): "self._shutdown.set()"
Shutdown ==
    /\ ~stop.shutdown
    /\ stop' = [stop EXCEPT !.shutdown = TRUE,
                            !.waiting = @ \cup {l \in {"council"} : AtTop(l)}]
    /\ UNCHANGED <<cfg, chat, utc, boot, venue, mom, scored, life, councilVars, dbVars, execVars, loopVars, pipeVars>>

\* TradingAgent.start() after "await self._shutdown.wait()": aggregator.stop()
\* and detector.stop(); the tasks are not cancelled
StopAll ==
    /\ stop.shutdown
    /\ stop.agg
    /\ stop' = [stop EXCEPT !.agg = FALSE, !.det = FALSE,
                            !.waiting = @ \cup {l \in {"odds", "prices", "detector"} :
                                                    AtTop(l)}]
    /\ UNCHANGED <<cfg, chat, utc, boot, venue, mom, scored, life, councilVars, dbVars, execVars, loopVars, pipeVars>>

\* some task can run without time passing
Ready ==
    \/ stop.shutdown /\ stop.agg
    \/ InGet("odds") /\ odds_queue # <<>>
    \/ agg.pending = NoPair /\ InGet("prices") /\ price_queue # <<>>
    \/ agg.pending # NoPair /\ Len(paired_queue) < PairedCap
    \/ det = NoSignal /\ InGet("detector") /\ paired_queue # <<>>
    \/ det # NoSignal /\ Len(signal_queue) < SignalCap
    \/ lpc = "get" /\ InGet("council") /\ signal_queue # <<>>
    \/ lpc \notin {"get", "dead"}
    \/ binance.pending # NoTick /\ Len(price_queue) < PriceCap
    \/ odds_feed.pending # NoOdds /\ Len(odds_queue) < OddsCap

\* the 5-second wait, the odds loop waiting again without testing its flag
Timeout5Rewaits ==
    /\ ~stop.agg
    /\ ~Ready
    /\ stop.waits < MaxWaits
    /\ stop' = [stop EXCEPT !.waits = @ + 1, !.waiting = @ \ {"council", "detector", "prices"}]
    /\ UNCHANGED <<cfg, chat, utc, boot, venue, mom, scored, life, councilVars, dbVars, execVars, loopVars, pipeVars>>

\* five seconds pass with the flags set and nothing to run: every wait_for
\* raises TimeoutError, "continue" goes back to the "while" test
Timeout5 ==
    /\ ~stop.agg
    /\ ~Ready
    /\ stop.waits < MaxWaits
    /\ stop' = [stop EXCEPT !.waits = @ + 1, !.waiting = {}]
    /\ UNCHANGED <<cfg, chat, utc, boot, venue, mom, scored, life, councilVars, dbVars, execVars, loopVars, pipeVars>>

\* start() resumes after "await self._shutdown.wait()": the four stop() calls
\* and "for t in tasks: t.cancel()" run without an await in between. A task
\* that has not returned by itself gets CancelledError at the await it is
\* suspended in and runs none of its own steps any more.
StopAndCancel ==
    /\ stop.shutdown
    /\ ~life.cancelled
    /\ stop' = [stop EXCEPT !.agg = FALSE, !.det = FALSE]
    /\ life' = [life EXCEPT !.cancelled = TRUE]
    /\ IF Terminated("council")
       THEN UNCHANGED <<lpc, councilVars, execVars>>
       ELSE /\ lpc' = "cancelled"
            /\ epc' = "idle"
            /\ ex' = [ex EXCEPT ![Council].pc = "idle"]
            /\ UNCHANGED <<calls, sentiment, confidence, verdict, failed, overlap>>
    /\ UNCHANGED <<cfg, chat, utc, boot, venue, mom, scored, dbVars, clock, signal_queue, cur, now, available,
                   cooldown_until, hist, pipeVars>>

\* a cancelled task is run by the event loop, CancelledError leaves its
\* coroutine and the task is done
TaskEnds ==
    /\ life.cancelled
    /\ \/ /\ ~life.council_done
          /\ life' = [life EXCEPT !.council_done = TRUE]
       \/ /\ life.others_done < Cardinality(OtherTasks)
          /\ life' = [life EXCEPT !.others_done = @ + 1]
    /\ UNCHANGED <<cfg, chat, utc, stop, boot, venue, mom, scored, councilVars, dbVars, execVars, loopVars, pipeVars>>

\* "await self.db.close()" with no gather before it
CloseDbUnawaited ==
    /\ life.cancelled
    /\ life.db = "open"
    /\ life' = [life EXCEPT !.db = "closed"]
    /\ UNCHANGED <<cfg, chat, utc, stop, boot, venue, mom, scored, councilVars, dbVars, execVars, loopVars, pipeVars>>

\* "await asyncio.gather(*tasks, return_exceptions=True)" returns once every
\* task is done; then "await self.db.close()"
CloseDb ==
    /\ life.cancelled
    /\ AllDone
    /\ life.db = "open"
    /\ life' = [life EXCEPT !.db = "closed"]
    /\ UNCHANGED <<cfg, chat, utc, stop, boot, venue, mom, scored, councilVars, dbVars, execVars, loopVars, pipeVars>>

\* start() logs "Shutdown complete" and returns
StartReturns ==
    /\ life.db = "closed"
    /\ ~life.returned
    /\ life' = [life EXCEPT !.returned = TRUE]
    /\ UNCHANGED <<cfg, chat, utc, stop, boot, venue, mom, scored, councilVars, dbVars, execVars, loopVars, pipeVars>>

InitPipe ==
    /\ price_history = [s \in Symbols |-> <<>>]
    /\ binance = [made |-> 0, pending |-> NoTick]
    /\ odds_feed = [made |-> 0, pending |-> NoOdds]
    /\ price_queue = <<>>
    /\ odds_queue = <<>>
    /\ latest_odds = [t \in Tokens |-> NoOdds]
    /\ odds_seen = [t \in Tokens |-> 0]
    /\ agg = [i |-> 0, pending |-> NoPair, tick |-> NoTick, seen |-> <<>>]
    /\ paired_queue = <<>>
    /\ lookups = <<>>
    /\ emitted = <<>>
    /\ det = NoSignal

(***************************************************************************)
(* Specifications                                                          *)
(***************************************************************************)
NoHist == [produced |-> 0, rejected |-> 0, cap_reads |-> 0,
           exec_at |-> [s \in Symbols |-> -1]]

\* no stage has been called on its own
NoOut == [stage |-> "none", ok |-> TRUE, response |-> <<>>, thinking |-> <<>>]

InitAgent ==
    /\ chat = NoOut
    /\ utc = 0
    /\ stop = Running
    /\ venue = IdleVenue /\ mom = NoMomentum /\ scored = NoScore /\ life = Alive
    /\ epc = "idle"
    /\ calls = <<>>
    /\ sentiment = NoSentiment
    /\ confidence = NoConfidence
    /\ verdict = NoVerdict
    /\ failed = {}
    /\ signal_log = <<>>
    /\ ex = [c \in Callers |-> IdleCall]
    /\ overlap = FALSE
    /\ clock = 0
    /\ signal_queue = <<>>
    /\ lpc = "get"
    /\ cur = SignalFor("btcusdt")
    /\ now = 0
    /\ available = 0
    /\ cooldown_until = [s \in Symbols |-> 0]
    /\ hist = NoHist
    /\ InitPipe

InitRest ==
    /\ boot = Booted
    /\ InitAgent

\* ---- the council alone: evaluate() called with the model outputs kept
CouncilConfigs ==
    [min_confidence : {0, 60}, max_position_size : MaxPositionSizes, max_capital : {60},
     max_open_positions : {2}, cooldown : {CooldownSecs},
     min_edge_pct : {200}, min_signal_score : {6000}]

InitCouncil ==
    /\ cfg \in CouncilConfigs
    /\ trades = <<>>
    /\ InitRest

NextCouncil ==
    \/ EvaluateCall
    \/ EvalSentiment
    \/ EvalConfidence
    \/ EvalJudge

SpecCouncil == InitCouncil /\ [][NextCouncil]_vars

\* ---- one stage called on its own with a model output
StageOut(stage, o) ==
    [stage |-> stage, ok |-> o.ok, response |-> o.response, thinking |-> o.thinking]

\* SentimentAgent.analyze(signal)
AnalyzeCall ==
    /\ chat = NoOut
    /\ \E o \in ChatOutcomes(SentLines) :
          /\ chat' = StageOut("sentiment", o)
          /\ sentiment' = analyze(o)
    /\ UNCHANGED <<cfg, utc, stop, boot, venue, mom, scored, life, pipeVars, epc, calls, confidence, verdict, failed, dbVars, execVars,
                   loopVars>>

\* ConfidenceGrader.grade(signal, sentiment)
GradeCall ==
    /\ chat = NoOut
    /\ \E o \in ChatOutcomes(ConfLines) :
          /\ chat' = StageOut("confidence", o)
          /\ confidence' = grade(o)
    /\ UNCHANGED <<cfg, utc, stop, boot, venue, mom, scored, life, pipeVars, epc, calls, sentiment, verdict, failed, dbVars, execVars,
                   loopVars>>

\* TradeJudge.judge(signal, sentiment, confidence, available_capital)
JudgeCall ==
    /\ chat = NoOut
    /\ \E o \in ChatOutcomes(JudgeLines) :
          /\ chat' = StageOut("judge", o)
          /\ verdict' = judge(o, cfg.max_position_size)
    /\ UNCHANGED <<cfg, utc, stop, boot, venue, mom, scored, life, pipeVars, epc, calls, sentiment, confidence, failed, dbVars, execVars,
                   loopVars>>

InitParse ==
    /\ cfg \in CouncilConfigs
    /\ trades = <<>>
    /\ InitRest

NextParse ==
    \/ AnalyzeCall
    \/ GradeCall
    \/ JudgeCall

SpecParse == InitParse /\ [][NextParse]_vars

\* ---- the risk gate and the paper trader under concurrent callers
ExecConfigs ==
    [min_confidence : {60}, max_position_size : {50}, max_capital : {50},
     max_open_positions : {2}, cooldown : {CooldownSecs},
     min_edge_pct : {200}, min_signal_score : {6000}]

WithinLimits(table, c) ==
    /\ OpenCount(table) <= c.max_open_positions
    /\ Exposure(table) <= c.max_capital

InitialTables ==
    {<<>>, <<[size_usd |-> 30, symbol |-> "btcusdt", side |-> "SELL",
              entry_price |-> 6000, open |-> TRUE]>>}

InitExec ==
    /\ cfg \in ExecConfigs
    /\ trades \in {t \in InitialTables : WithinLimits(t, cfg)}
    /\ InitRest

NextExec ==
    \/ \E c \in Testers : ExecCall(c)
    \/ \E c \in Testers : ExecRead(c)
    \/ \E c \in Testers : ExecLogTrade(c)
    \/ \E c \in Testers : ExecLogSignal(c)
    \/ CloseTrade

SpecExec == InitExec /\ [][NextExec]_vars

\* ---- the live variant: OrderManager.execute called on its own, and trades
\* closed from outside
NextVenue ==
    \/ LiveCall
    \/ LiveRead
    \/ LiveLogTrade
    \/ CloseTrade

SpecVenue == InitExec /\ [][NextVenue]_vars

\* ---- the wired agent: the council loop, its evaluate() and execute()
AgentConfigs ==
    [min_confidence : {60}, max_position_size : {50}, max_capital : {60},
     max_open_positions : {2}, cooldown : {CooldownSecs},
     min_edge_pct : {200}, min_signal_score : {6000}]

Init ==
    /\ cfg \in AgentConfigs
    /\ trades = <<>>
    /\ InitRest

Next ==
    \/ Tick
    \/ SignalPut
    \/ CouncilGet
    \/ CouncilLogSignal
    \/ CouncilCapital
    \/ EvalSentiment
    \/ EvalConfidence
    \/ EvalJudge
    \/ CouncilDecision
    \/ ExecRead(Council)
    \/ ExecLogTrade(Council)
    \/ ExecLogSignal(Council)
    \/ CloseTrade

Spec == Init /\ [][Next]_vars

\* one step of the council task: the event loop runs a task that is ready, and
\* each database or inference call it awaits returns or raises
CouncilStep ==
    \/ CouncilGet
    \/ CouncilLogSignal
    \/ CouncilCapital
    \/ EvalSentiment
    \/ EvalConfidence
    \/ EvalJudge
    \/ CouncilDecision
    \/ ExecRead(Council)
    \/ ExecLogTrade(Council)
    \/ ExecLogSignal(Council)

\* ---- shutting down: the council loop fed by the detector, shutdown() called
\* at any point, then the rest of start(); every task that can run is run
NextShutdown ==
    \/ SignalPut
    \/ CouncilStep
    \/ Shutdown
    \/ StopAndCancel
    \/ TaskEnds
    \/ CloseDb
    \/ StartReturns

FairShutdown ==
    /\ WF_vars(CouncilStep)
    /\ WF_vars(StopAndCancel)
    /\ WF_vars(TaskEnds)
    /\ WF_vars(CloseDb)
    /\ WF_vars(StartReturns)

SpecShutdown == Init /\ [][NextShutdown]_vars /\ FairShutdown

\* ---- start-up in either trading mode, with or without the private key, then
\* the council loop fed by the detector
InitStart ==
    /\ cfg \in AgentConfigs
    /\ trades = <<>>
    /\ boot \in [mode : {"paper", "live"}, key : {"", "0xkey"}, started : {FALSE}]
    /\ InitAgent

NextStart ==
    \/ Start
    \/ SignalPut
    \/ CouncilStep

SpecStart == InitStart /\ [][NextStart]_vars

\* ---- the price feed's window and get_momentum on their own
NextMomentum ==
    \/ RecordPrice
    \/ AskMomentum

SpecMomentum == Init /\ [][NextMomentum]_vars

\* ---- composite_score on its own
NextScore == ScoreCall

SpecScore == Init /\ [][NextScore]_vars

\* ---- the council loop fed by the detector, with a fair scheduler
NextLive ==
    \/ SignalPut
    \/ Tick
    \/ CouncilStep

SpecLive == Init /\ [][NextLive]_vars /\ WF_vars(CouncilStep)

\* ---- the feeds, the aggregator and the detector, upstream of a council that
\* ---- is busy with one evaluation
InitAgg ==
    /\ cfg \in AgentConfigs
    /\ trades = <<>>
    /\ InitRest

NextAgg ==
    \/ BinanceRecv
    \/ BinancePut
    \/ OddsPoll
    \/ OddsPut
    \/ ConsumeOdds
    \/ ConsumePrices
    \/ ConsumePricesResume
    \/ DetectorGet

SpecAgg == InitAgg /\ [][NextAgg]_vars

\* ---- the four queues end to end: both feeds, the aggregator, the detector and
\* the council loop's get, while the symbol that moves is cooling down after a
\* trade (the loop then goes straight back to its get)
InitCooling ==
    /\ boot = Booted
    /\ cfg \in AgentConfigs
    /\ trades = <<[size_usd |-> 30, symbol |-> "btcusdt", side |-> "BUY",
                   entry_price |-> 4000, open |-> TRUE]>>
    /\ chat = NoOut
    /\ utc = 0
    /\ stop = Running
    /\ venue = IdleVenue /\ mom = NoMomentum /\ scored = NoScore /\ life = Alive
    /\ epc = "idle"
    /\ calls = <<>>
    /\ sentiment = NoSentiment
    /\ confidence = NoConfidence
    /\ verdict = NoVerdict
    /\ failed = {}
    /\ signal_log = <<>>
    /\ ex = [c \in Callers |-> IdleCall]
    /\ overlap = FALSE
    /\ clock = 0
    /\ signal_queue = <<>>
    /\ lpc = "get"
    /\ cur = SignalFor("btcusdt")
    /\ now = 0
    /\ available = 0
    /\ cooldown_until = [s \in Symbols |-> IF s = "btcusdt" THEN CooldownSecs ELSE 0]
    /\ hist = NoHist

InitQueues == InitCooling /\ InitPipe

NextQueues ==
    \/ BinanceRecv
    \/ BinancePut
    \/ OddsPoll
    \/ OddsPut
    \/ ConsumeOdds
    \/ ConsumePrices
    \/ ConsumePricesResume
    \/ DetectorGet
    \/ DetectorPut
    \/ CouncilGet

SpecQueues == InitQueues /\ [][NextQueues]_vars

\* ---- stopping: the consumer loops and the price feed, from a state where one
\* market's odds are cached and the other's snapshot is queued, with the
\* stop flags set at some point and no task cancelled
InitStop ==
    /\ InitCooling
    /\ price_history = [s \in Symbols |-> <<>>]
    /\ binance = [made |-> 0, pending |-> NoTick]
    /\ odds_feed = [made |-> 2, pending |-> NoOdds]
    /\ price_queue = <<>>
    /\ odds_queue = <<[token_id |-> "B", symbol |-> "btcusdt", midpoint |-> 5000,
                       timestamp |-> 0, seq |-> 2]>>
    /\ latest_odds = [t \in Tokens |->
                         IF t = "A"
                         THEN [token_id |-> "A", symbol |-> "btcusdt", midpoint |-> 5000,
                               timestamp |-> 0, seq |-> 1]
                         ELSE NoOdds]
    /\ odds_seen = [t \in Tokens |-> 0]
    /\ agg = [i |-> 0, pending |-> NoPair, tick |-> NoTick, seen |-> <<>>]
    /\ paired_queue = <<>>
    /\ lookups = <<>>
    /\ emitted = <<>>
    /\ det = NoSignal

NextStop ==
    \/ BinanceRecv
    \/ BinancePut
    \/ ConsumeOdds
    \/ ConsumePrices
    \/ ConsumePricesResume
    \/ DetectorGet
    \/ DetectorPut
    \/ CouncilGet
    \/ Shutdown
    \/ StopAll
    \/ Timeout5

SpecStop == InitStop /\ [][NextStop]_vars

\* ---- the pipeline under a fair event loop: every task that is ready to run
\* is run, the exchange sends ticks as it pleases, and the council loop keeps
\* dequeuing (the symbol that moves is cooling down)
NextFlow ==
    \/ BinanceRecv
    \/ BinancePut
    \/ ConsumeOdds
    \/ ConsumePrices
    \/ ConsumePricesResume
    \/ DetectorGet
    \/ DetectorPut
    \/ CouncilGet

FairFlow ==
    /\ WF_vars(BinancePut)
    /\ WF_vars(ConsumeOdds)
    /\ WF_vars(ConsumePrices \/ ConsumePricesResume)
    /\ WF_vars(DetectorGet \/ DetectorPut)
    /\ WF_vars(CouncilGet)

SpecFlow == InitStop /\ [][NextFlow]_vars /\ FairFlow

\* ---- the odds feed and the aggregator's odds loop, with the wall clock
NextOdds ==
    \/ UtcSet
    \/ OddsPoll
    \/ OddsPut
    \/ ConsumeOdds

SpecOdds == InitAgg /\ [][NextOdds]_vars

\* ---- the detector alone: one paired observation waits on the paired queue
\* ---- and the price feed holds some history
DetectPrices == {0, 970, 1000, 1001, 1003, 1010, 1020, 1030}
DetectMidpoints == {50, 150, 5000, 9850, 9950}
DetectVolumes == {0, 700}

DetectConfigs ==
    [min_confidence : {60}, max_position_size : {50}, max_capital : {60},
     max_open_positions : {2}, cooldown : {CooldownSecs},
     min_edge_pct : {20, 200}, min_signal_score : {100, 6000, 8500}]

InitDetect ==
    /\ cfg \in DetectConfigs
    /\ trades = <<>>
    /\ chat = NoOut /\ utc = 0 /\ stop = Running /\ boot = Booted /\ venue = IdleVenue /\ mom = NoMomentum /\ scored = NoScore /\ life = Alive
    /\ epc = "idle" /\ calls = <<>>
    /\ sentiment = NoSentiment /\ confidence = NoConfidence /\ verdict = NoVerdict
    /\ failed = {} /\ signal_log = <<>>
    /\ ex = [c \in Callers |-> IdleCall] /\ overlap = FALSE
    /\ clock = 0 /\ signal_queue = <<>> /\ lpc = "get" /\ cur = SignalFor("btcusdt")
    /\ now = 0 /\ available = 0 /\ cooldown_until = [s \in Symbols |-> 0]
    /\ hist = NoHist
    /\ \E h \in SeqsUpTo(DetectPrices, Window) \ {<<>>}, mid \in DetectMidpoints,
          volume \in DetectVolumes :
          LET tick == [symbol |-> "btcusdt", price |-> Last(h), id |-> 1,
                       momentum |-> calc_momentum(h, Last(h)), volume_24h |-> volume]
              odds == [token_id |-> "A", symbol |-> "btcusdt", midpoint |-> mid,
                       timestamp |-> 0, seq |-> 1]
          IN /\ price_history = [s \in Symbols |-> IF s = "btcusdt" THEN h ELSE <<>>]
             /\ binance = [made |-> Len(h), pending |-> NoTick]
             /\ odds_feed = [made |-> 1, pending |-> NoOdds]
             /\ latest_odds = [t \in Tokens |-> IF t = "A" THEN odds ELSE NoOdds]
             /\ odds_seen = [t \in Tokens |-> 0]
             /\ paired_queue = <<[tick |-> tick, odds |-> odds]>>
             /\ emitted = paired_queue
             /\ lookups = <<[tick |-> tick, market |-> "A", odds |-> odds]>>
             /\ agg = [i |-> 0, pending |-> NoPair, tick |-> NoTick,
                       seen |-> <<[tick |-> tick, cached |-> {"A"}]>>]
    /\ price_queue = <<>>
    /\ odds_queue = <<>>
    /\ det = NoSignal

NextDetect == DetectorGet

SpecDetect == InitDetect /\ [][NextDetect]_vars

(***************************************************************************)
(* Claims                                                                  *)
(***************************************************************************)
Range(f) == {f[i] : i \in DOMAIN f}

\* C1: evaluate() makes exactly the two calls sentiment, confidence, and never
\* the judge's, when the graded confidence is below min_confidence; it makes
\* exactly the three calls sentiment, confidence, judge when the confidence
\* is at least min_confidence, the boundary included.
C1_CallsPerEvaluate ==
    /\ epc = "done" =>
          IF confidence.confidence < cfg.min_confidence
          THEN calls = <<"sentiment", "confidence">>
          ELSE calls = <<"sentiment", "confidence", "judge">>
    /\ (epc = "judge" \/ "judge" \in Range(calls)) =>
          confidence.confidence >= cfg.min_confidence

\* an evaluate() that returned with the confidence exactly at the threshold
C1_Witness ==
    /\ epc = "done"
    /\ cfg.min_confidence > 0
    /\ confidence.confidence = cfg.min_confidence
    /\ calls = <<"sentiment", "confidence", "judge">>

\* C4: every TradeVerdict evaluate() returns has size_usd > 0 exactly when its
\* action is TRADE, whether it comes from the short-circuit, from the judge's
\* parse or from a judge failure; the short-circuit verdict is SKIP, size 0.
C4_SizeIffTrade ==
    epc = "done" =>
       /\ (verdict.size_usd > 0) <=> (verdict.action = "TRADE")
       /\ verdict.model = "short-circuit" =>
             (verdict.action = "SKIP" /\ verdict.size_usd = 0)
       /\ verdict.model \in {"short-circuit", "judge"}

\* a TRADE verdict parsed from the judge's output
C4_Witness ==
    /\ epc = "done"
    /\ verdict.model = "judge"
    /\ verdict.rationale = "model"
    /\ verdict.action = "TRADE"
    /\ verdict.size_usd > 0

\* C5: an inference call that raises, in any of the three stages, is caught in
\* the stage and becomes its fail-safe result with an error rationale
\* (NEUTRAL, confidence 0, SKIP with size 0); evaluate() never raises and goes
\* on to return a decision.
C5_FailureIsFailSafe ==
    /\ epc # "raised"
    /\ "sentiment" \in failed =>
          /\ sentiment.sentiment = "NEUTRAL" /\ sentiment.rationale = "error"
          /\ epc \in {"confidence", "judge", "done"}
    /\ "confidence" \in failed =>
          /\ confidence.confidence = 0 /\ confidence.rationale = "error"
          /\ epc \in {"judge", "done"}
    /\ "judge" \in failed =>
          /\ verdict.action = "SKIP" /\ verdict.size_usd = 0
          /\ verdict.rationale = "error"
          /\ epc = "done"

\* an evaluate() that returned although all three inference calls raised
C5_Witness ==
    /\ epc = "done"
    /\ failed = {"sentiment", "confidence", "judge"}

\* C2: as long as no execute() call has started while another was in flight,
\* the open trades never exceed max_open_positions in number nor max_capital
\* in total size, whatever closes happen in between.
C2_SequentialWithinLimits ==
    ~overlap => WithinLimits(trades, cfg)

\* sequential calls and a close that filled the capital exactly, after which
\* a further call was refused for exposure
C2_Witness ==
    /\ ~overlap
    /\ Exposure(trades) = cfg.max_capital
    /\ \E i \in 1..Len(trades) : ~trades[i].open
    /\ \E c \in Testers : ex[c].ret = "None" /\ ex[c].res.reason = "exposure"

\* C3: the risk check and the trade-record write are not atomic: a caller
\* approved on its snapshot writes its trade in its next step whatever the
\* table holds by then, so two concurrent calls can both be recorded beyond
\* the limits (the witness).
C3_WriteFollowsStaleApproval ==
    [][\A c \in Testers :
          (ex[c].pc = "approved" /\ ex'[c] # ex[c]) =>
             /\ ex'[c].pc = "logged"
             /\ Len(trades') = Len(trades) + 1
             /\ SubSeq(trades', 1, Len(trades)) = trades
             /\ Last(trades').size_usd = ex[c].size
             /\ Last(trades').symbol = ex[c].symbol
             /\ Last(trades').open]_vars

\* both concurrent calls returned an order and the open exposure exceeds
\* max_capital
C3_Witness ==
    /\ overlap
    /\ \A c \in Testers : ex[c].ret = "order"
    /\ Exposure(trades) > cfg.max_capital

\* C10: can_trade(size) is (true, OK) exactly when the open count is below
\* max_open_positions, size <= max_position_size and exposure + size <=
\* max_capital; otherwise the reason is that of the first failing check in
\* the order count, size, exposure.
C10_CanTradeContract ==
    \A c \in Testers :
       ex[c].res.reason # "none" =>
          LET n == Len(ex[c].snap)
              total == SumSeq(ex[c].snap)
              size == ex[c].size
              r == ex[c].res
              okCount == n < cfg.max_open_positions
              okSize == size <= cfg.max_position_size
              okExposure == total + size <= cfg.max_capital
          IN /\ r.ok <=> (okCount /\ okSize /\ okExposure)
             /\ r.ok => r.reason = "OK"
             /\ ~okCount => r.reason = "count"
             /\ (okCount /\ ~okSize) => r.reason = "size"
             /\ (okCount /\ okSize /\ ~okExposure) => r.reason = "exposure"

\* with max_open_positions trades open, a size above max_position_size is
\* refused for the count
C10_Witness ==
    \E c \in Testers :
       /\ Len(ex[c].snap) = cfg.max_open_positions
       /\ ex[c].size > cfg.max_position_size
       /\ ex[c].res = [ok |-> FALSE, reason |-> "count"]

\* the council loop dequeues a signal
Dequeues == lpc = "get" /\ signal_queue # <<>> /\ signal_queue' = Tail(signal_queue)

\* C8: a signal dequeued while now < cooldown[symbol] is dropped silently: no
\* signal-log row, no capital read, no inference call, no risk check, no trade
\* record, and the loop waits for the next signal.
C8_CooldownRejectIsSilent ==
    [][(Dequeues /\ clock < cooldown_until[Head(signal_queue).symbol]) =>
          /\ lpc' = "get"
          /\ signal_log' = signal_log
          /\ hist'.cap_reads = hist.cap_reads
          /\ calls' = calls /\ epc' = epc
          /\ ex' = ex
          /\ trades' = trades]_vars

\* a signal was rejected by the cooldown gate
C8_Witness == hist.rejected > 0

\* C9: after a successful execution for a symbol, every signal of that symbol
\* dequeued less than cooldown seconds after the execution completed is
\* rejected by the cooldown gate.
C9_CooldownCountsFromExecution ==
    [][\A sym \in Symbols :
          (/\ Dequeues
           /\ Head(signal_queue).symbol = sym
           /\ hist.exec_at[sym] >= 0
           /\ clock < hist.exec_at[sym] + cfg.cooldown) =>
             (lpc' = "get" /\ hist'.rejected = hist.rejected + 1)]_vars


(***************************************************************************)
(* The aggregator: histories read by the claims                            *)
(***************************************************************************)
\* the markets registered for a symbol, read off the discovered markets
Registered(sym) == {Markets[k].token_id : k \in {j \in DOMAIN Markets : Markets[j].symbol = sym}}

\* the pairs put on the paired queue so far, and the one whose put is suspended
Pairs == Range(emitted) \cup (IF agg.pending = NoPair THEN {} ELSE {agg.pending})

\* the odds snapshots the aggregator has taken off the odds queue
OddsDequeued ==
    {o \in [token_id : Tokens, symbol : Symbols, midpoint : Midpoints,
             timestamp : 0..MaxUtc, seq : 1..odds_feed.made] :
        /\ o \notin Range(odds_queue)
        /\ o # odds_feed.pending
        /\ \E k \in DOMAIN Markets : Markets[k].token_id = o.token_id /\ Markets[k].symbol = o.symbol}

\* the ticks whose walk over the markets has ended
Processed == {agg.seen[k] : k \in {j \in DOMAIN agg.seen : agg.seen[j].tick # agg.tick}}

\* C6 as stated: a pair for a tick and a market is emitted only if that
\* market's odds had been dequeued (the market had a cached entry) when the
\* tick was taken up for processing.
C6_PairedOnlyIfCachedAtDequeue ==
    \A p \in Range(emitted) :
        \E k \in DOMAIN agg.seen :
            agg.seen[k].tick = p.tick /\ p.odds.token_id \in agg.seen[k].cached

\* C6 (amended): every pair emitted, or waiting for the paired queue, carries
\* an odds snapshot of a market of the tick's symbol that the aggregator had
\* dequeued from the odds queue by the time it looked that market up for the
\* tick; and a tick taken up while no market of its symbol had a cached entry
\* is in no pair, in this state or any later one.
C6_PairedOnlyAfterOdds ==
    /\ \A p \in Pairs :
          /\ p.odds \in OddsDequeued
          /\ p.odds.token_id \in Registered(p.tick.symbol)
          /\ \E k \in DOMAIN lookups :
                lookups[k] = [tick |-> p.tick, market |-> p.odds.token_id, odds |-> p.odds]
    /\ \A k \in DOMAIN agg.seen :
          agg.seen[k].cached = {} => \A p \in Pairs : p.tick # agg.seen[k].tick

\* a tick was dropped for want of odds, odds have arrived since, and another
\* tick was paired with a market whose odds arrived while it waited for the
\* paired queue
C6_Witness ==
    /\ \E s \in Processed :
          /\ s.cached = {}
          /\ Registered(s.tick.symbol) # {}
          /\ \E t \in Tokens : latest_odds[t] # NoOdds
    /\ \E p \in Range(emitted) :
          \E k \in DOMAIN agg.seen :
              agg.seen[k].tick = p.tick /\ p.odds.token_id \notin agg.seen[k].cached

\* C7: for every tick the aggregator has finished with, each market
\* registered for the tick's symbol was looked up once; a market found
\* cached has exactly one emitted pair, carrying the tick and the odds found,
\* a market found missing has none, and a market of another symbol (or any
\* market, for a symbol without markets) has none.
C7_OnePairPerCachedMarket ==
    \A s \in Processed : \A m \in Tokens :
        LET L == {k \in DOMAIN lookups : lookups[k].tick = s.tick /\ lookups[k].market = m}
            E == {k \in DOMAIN emitted : emitted[k].tick = s.tick /\ emitted[k].odds.token_id = m}
        IN IF m \notin Registered(s.tick.symbol)
           THEN L = {} /\ E = {}
           ELSE /\ Cardinality(L) = 1
                /\ \A k \in L :
                      IF lookups[k].odds = NoOdds
                      THEN E = {}
                      ELSE /\ Cardinality(E) = 1
                           /\ \A e \in E : emitted[e].odds = lookups[k].odds

\* a finished tick with one market paired and the other skipped, and a
\* finished tick of a symbol that has no market
C7_Witness ==
    /\ \E s \in Processed :
          /\ \E k \in DOMAIN lookups : lookups[k].tick = s.tick /\ lookups[k].odds = NoOdds
          /\ \E e \in DOMAIN emitted : emitted[e].tick = s.tick
    /\ \E s \in Processed : Registered(s.tick.symbol) = {}

\* C11: a step of an execute() call that returns no order (the verdict is
\* not TRADE, or the risk gate refused the size) leaves the trades table as
\* it was; an order is returned only by a call that has inserted its record,
\* and that insertion, the only write of the call, adds exactly one row:
\* open, of the verdict's size, entered at the signal's odds midpoint, BUY
\* for direction UP and SELL otherwise.
C11_ExecuteFrame ==
    [][\A c \in Testers :
          ex'[c] # ex[c] =>
             /\ IF ex[c].pc = "approved"
                THEN /\ ex'[c].pc = "logged"
                     /\ Len(trades') = Len(trades) + 1
                     /\ SubSeq(trades', 1, Len(trades)) = trades
                     /\ LET row == trades'[Len(trades')]
                        IN /\ row.open
                           /\ row.size_usd = ex[c].size
                           /\ row.entry_price = ex[c].odds_midpoint
                           /\ row.side = (IF ex[c].direction = "UP" THEN "BUY" ELSE "SELL")
                ELSE trades' = trades
             /\ ex'[c].pc = "logged" => ex[c].pc = "approved"
             /\ ex'[c].pc = "approved" => (ex[c].pc = "called" /\ ex'[c].res.ok)
             /\ ex'[c].ret = "order" => ex[c].pc = "logged"
             /\ (ex[c].pc = "called" /\ ~ex'[c].res.ok) => ex'[c].ret = "None"
             /\ ex'[c].ret = "None" => ex'[c].pc = "idle"]_vars

\* one call sold and returned its order, the other was refused by the risk
\* gate and returned none
C11_Witness ==
    /\ \E c \in Testers :
          /\ ex[c].ret = "order" /\ ex[c].direction = "DOWN"
          /\ \E k \in DOMAIN trades :
                trades[k].side = "SELL" /\ trades[k].entry_price = 6000
                /\ trades[k].size_usd = ex[c].size
    /\ \E c \in Testers : ex[c].ret = "None" /\ ~ex[c].res.ok /\ ex[c].res.reason # "none"

(***************************************************************************)
(* The stages called on their own: what the model output holds             *)
(***************************************************************************)
\* the text has a line of the field
Has(label, text) == \E i \in DOMAIN text : text[i].label = label

\* the token of the last line of the field in the text
LastOf(label, text) ==
    text[CHOOSE i \in DOMAIN text :
            text[i].label = label /\ \A j \in DOMAIN text : j > i => text[j].label # label].val

\* the judge was called on its own and its inference call returned
Judged == chat.stage = "judge" /\ chat.ok

\* the SIZE token the judge's output ends with, clean channel first
SizeToken ==
    IF Has("SIZE", chat.response) THEN LastOf("SIZE", chat.response)
    ELSE LastOf("SIZE", chat.thinking)

\* C12: every TRADE verdict of the judge has 5 <= size_usd <=
\* max_position_size, whatever size was parsed and whatever
\* max_position_size is configured.
C12_TradeSizeWithinLimits ==
    (Judged /\ verdict.action = "TRADE") =>
        (5 <= verdict.size_usd /\ verdict.size_usd <= cfg.max_position_size)

\* C13: when the size parsed from the judge's output is not positive, the
\* verdict's action is SKIP whatever the decision text says.
C13_NonPositiveSizeSkips ==
    (/\ Judged
     /\ Has("SIZE", chat.response) \/ Has("SIZE", chat.thinking)
     /\ SizeToken.ok /\ SizeToken.v <= 0) => verdict.action = "SKIP"

\* the field occurs in one of the two channels of the output
InEither(label) == Has(label, chat.response) \/ Has(label, chat.thinking)

\* the token extraction is to use: the last one of the clean channel if it
\* has any, else the last one of the reasoning followed by the clean text
Token(label) ==
    IF Has(label, chat.response) THEN LastOf(label, chat.response)
    ELSE LastOf(label, chat.thinking \o chat.response)

\* C14: the confidence of every ConfidenceGrade is within [0, 1]; a value
\* above 1 is stored as 1.0, and a matched token that is no number as 0.0.
C14_ConfidenceInUnitRange ==
    chat.stage = "confidence" =>
        /\ 0 <= confidence.confidence /\ confidence.confidence <= 100
        /\ (chat.ok /\ InEither("CONFIDENCE")) =>
              /\ (Token("CONFIDENCE").ok /\ Token("CONFIDENCE").v > 100) =>
                    confidence.confidence = 100
              /\ ~Token("CONFIDENCE").ok => confidence.confidence = 0

\* the grader read 1.5 and stored 1.0
C14_Witness ==
    /\ chat.stage = "confidence" /\ chat.ok
    /\ Has("CONFIDENCE", chat.response)
    /\ Token("CONFIDENCE") = Num(150)
    /\ confidence.confidence = 100

\* C15: when the output has no match of the stage's field in either
\* channel, the stage returns its default: NEUTRAL, confidence 0.0, SKIP
\* with size 0.
C15_NoMatchGivesDefault ==
    chat.ok =>
        /\ (chat.stage = "sentiment" /\ ~InEither("SENTIMENT")) =>
              sentiment.sentiment = "NEUTRAL"
        /\ (chat.stage = "confidence" /\ ~InEither("CONFIDENCE")) =>
              confidence.confidence = 0
        /\ (chat.stage = "judge" /\ ~InEither("DECISION")) =>
              (verdict.action = "SKIP" /\ verdict.size_usd = 0)

\* the grader got text in both channels, none of it a CONFIDENCE line, and
\* returned 0.0
C15_Witness ==
    /\ chat.stage = "confidence" /\ chat.ok
    /\ chat.response # <<>> /\ chat.thinking # <<>>
    /\ ~InEither("CONFIDENCE")
    /\ confidence.confidence = 0

\* C16: for each field the value comes from the last match of the clean
\* channel when it has one, whatever the reasoning channel says; otherwise
\* from the last match of the reasoning followed by the clean text.
C16_CleanChannelFirst ==
    chat.ok =>
        /\ (chat.stage = "sentiment" /\ InEither("SENTIMENT")) =>
              sentiment.sentiment = Upper(Token("SENTIMENT"))
        /\ (chat.stage = "confidence" /\ InEither("CONFIDENCE") /\ Token("CONFIDENCE").ok) =>
              confidence.confidence = Max(0, Min(100, Token("CONFIDENCE").v))
        /\ (chat.stage = "judge" /\ InEither("DECISION")) =>
              /\ Upper(Token("DECISION")) = "SKIP" => verdict.action = "SKIP"
              /\ (/\ Upper(Token("DECISION")) = "TRADE"
                  /\ InEither("SIZE") /\ Token("SIZE").ok /\ Token("SIZE").v > 0) =>
                    /\ verdict.action = "TRADE"
                    /\ verdict.size_usd =
                          Max(5, Min(Token("SIZE").v, cfg.max_position_size))

\* the clean channel says bullish, then bearish; the reasoning says bullish;
\* the result is BEARISH
C16_Witness ==
    /\ chat.stage = "sentiment" /\ chat.ok
    /\ Len(chat.response) = 2
    /\ chat.response[1].val = "BULLISH" /\ chat.response[2].val = "bearish"
    /\ Has("SENTIMENT", chat.thinking) /\ LastOf("SENTIMENT", chat.thinking) = "BULLISH"
    /\ sentiment.sentiment = "BEARISH"

\* the verdict _parse builds from a decision token and a size token
VerdictOf(d, sz) ==
    LET size == IF Upper(d) = "TRADE" /\ sz.ok
                THEN Max(MinTradeSize, Min(sz.v, cfg.max_position_size))
                ELSE 0
    IN [action |-> IF Upper(d) = "TRADE" /\ size > 0 THEN "TRADE" ELSE "SKIP",
        size_usd |-> size]

\* the clean channel has the one field and not the other, which the
\* reasoning channel has
OnlyInClean(label, other) ==
    /\ Judged
    /\ Has(label, chat.response) /\ ~Has(other, chat.response)
    /\ Has(other, chat.thinking)

\* C39: the fields of one output fall back independently.  When the clean
\* channel has a DECISION line and no SIZE line, the verdict is built from the
\* last DECISION of the clean channel and the last SIZE of the reasoning
\* channel, whatever DECISION lines the reasoning has; and the other way
\* round when the clean channel has only SIZE lines.
C39_FieldsFallBackIndependently ==
    /\ OnlyInClean("DECISION", "SIZE") =>
          LET v == VerdictOf(LastOf("DECISION", chat.response), LastOf("SIZE", chat.thinking))
          IN verdict.action = v.action /\ verdict.size_usd = v.size_usd
    /\ OnlyInClean("SIZE", "DECISION") =>
          LET v == VerdictOf(LastOf("DECISION", chat.thinking), LastOf("SIZE", chat.response))
          IN verdict.action = v.action /\ verdict.size_usd = v.size_usd

\* the clean channel says only "DECISION: TRADE"; the reasoning says skip and
\* then a size of 30; the verdict is TRADE with size 30
C39_Witness ==
    /\ OnlyInClean("DECISION", "SIZE")
    /\ LastOf("DECISION", chat.response) = "TRADE"
    /\ Has("DECISION", chat.thinking) /\ LastOf("DECISION", chat.thinking) = "skip"
    /\ LastOf("SIZE", chat.thinking) = Num(30)
    /\ verdict.action = "TRADE" /\ verdict.size_usd = 30

(***************************************************************************)
(* The detector                                                            *)
(***************************************************************************)
\* the detector takes a paired observation off the paired queue
DetectorTakes == paired_queue # <<>> /\ paired_queue' = Tail(paired_queue)

\* the detector hands a signal to the signal queue (or suspends in the put)
DetectorEmits == signal_queue' # signal_queue \/ det' # det

\* C17: the detector emits a signal for a paired observation exactly when
\* |momentum| >= 0.3, |edge| >= min_edge_pct and the composite score >=
\* min_signal_score; below the momentum threshold nothing is emitted even
\* if edge and score would pass.
C17_EmitsIffAllThresholds ==
    [][DetectorTakes =>
          LET h == price_history[Head(paired_queue).tick.symbol]
              mid == Head(paired_queue).odds.midpoint
              m == IF Len(h) < 2 \/ h[1] = 0 THEN 0
                   ELSE ((h[Len(h)] - h[1]) * 10000) \div h[1]
              raw == mid + 3 * m
              implied == IF raw < 100 THEN 100 ELSE IF raw > 9900 THEN 9900 ELSE raw
              e == implied - mid
              absm == IF m < 0 THEN -m ELSE m
              abse == IF e < 0 THEN -e ELSE e
              score == (IF 5 * abse > 5000 THEN 5000 ELSE 5 * abse)
                       + (IF 6 * absm > 3000 THEN 3000 ELSE 6 * absm)
          IN DetectorEmits <=>
                (absm >= 30 /\ abse >= cfg.min_edge_pct /\ score >= cfg.min_signal_score)]_vars

\* a signal was emitted for a momentum of 3 % against the default thresholds
C17_Witness ==
    /\ cfg.min_edge_pct = 200 /\ cfg.min_signal_score = 6000
    /\ signal_queue # <<>>
    /\ Head(signal_queue).price_momentum_pct = 300
    /\ Head(signal_queue).edge_pct >= 200
    /\ Head(signal_queue).signal_score >= 6000

(***************************************************************************)
(* The odds cache                                                          *)
(***************************************************************************)
\* C18: the odds cache has at most one entry per market key, filed under the
\* snapshot's own key, and every snapshot taken off the odds queue replaces
\* the entry of its key whatever the timestamps are, leaving the other keys
\* alone: the entry of a key is the snapshot of that key dequeued last.
C18_LastDequeuedWins ==
    [][/\ \A t \in Tokens : latest_odds'[t] # NoOdds => latest_odds'[t].token_id = t
       /\ (odds_queue # <<>> /\ odds_queue' = Tail(odds_queue)) =>
             /\ latest_odds'[Head(odds_queue).token_id] = Head(odds_queue)
             /\ \A t \in Tokens \ {Head(odds_queue).token_id} :
                   latest_odds'[t] = latest_odds[t]
       /\ latest_odds' # latest_odds =>
             (odds_queue # <<>> /\ odds_queue' = Tail(odds_queue))]_vars

\* the cache holds a snapshot older than one it held before for the same key
C18_Witness ==
    \E t \in Tokens :
        /\ latest_odds[t] # NoOdds
        /\ latest_odds[t].timestamp < odds_seen[t]

(***************************************************************************)
(* The queues between the tasks                                            *)
(***************************************************************************)
\* q2 is q with items added at the tail
Added(q, q2) == Len(q2) > Len(q) /\ SubSeq(q2, 1, Len(q)) = q
Removed(q, q2) == q # <<>> /\ q2 = Tail(q)

\* one step of a bounded FIFO queue: nothing, items added at the tail while
\* there is room (a producer that is not suspended between two puts adds both
\* in one step), or the head removed
QueueMoves(q, q2, cap) ==
    \/ q2 = q
    \/ Added(q, q2) /\ Len(q2) <= cap
    \/ Removed(q, q2)

\* a producer's blocked item: it is set only when the queue is full, kept while the
\* put is suspended, and given up only by adding that very item to the queue
\* (the producer may then block on a later item)
Suspends(pending, pending2, none, q, q2, cap) ==
    /\ (pending = none /\ pending2 # none) => Len(q2) = cap
    /\ (pending # none /\ pending2 # pending) =>
          /\ Len(q) < cap /\ Added(q, q2) /\ q2[Len(q) + 1] = pending
          /\ pending2 = none \/ Len(q2) = cap
    /\ (pending # none /\ pending2 = pending) => ~Added(q, q2)

\* the ids of the ticks the aggregator took, then those queued, then the one
\* the price feed is blocked on
TickIds ==
    [i \in 1..Len(agg.seen) |-> agg.seen[i].tick.id]
        \o [i \in 1..Len(price_queue) |-> price_queue[i].id]
        \o (IF binance.pending = NoTick THEN <<>> ELSE <<binance.pending.id>>)

C20_StopsWithinOneWait ==
    stop.waits >= 1 => \A loop \in Loops : Terminated(loop)

\* C20: every wait for work is bounded, so once the flags are set and one
\* bounded wait has elapsed the odds loop and the council loop have
\* terminated, and the price loop and the detector loop have terminated unless
\* suspended in a put on a full queue, a wait that has no bound.
C20_StopsUnlessSuspendedInPut ==
    stop.waits >= 1 =>
        /\ Terminated("odds")
        /\ Terminated("council")
        /\ Terminated("prices")
              \/ (agg.pending # NoPair /\ Len(paired_queue) = PairedCap)
        /\ Terminated("detector")
              \/ (det # NoSignal /\ Len(signal_queue) = SignalCap)

\* a wait has elapsed since the flags were set; the price loop is still
\* suspended in its put, the three other loops have returned
C20_Witness ==
    /\ stop.waits >= 1
    /\ agg.pending # NoPair
    /\ \A loop \in Loops \ {"prices"} : Terminated(loop)

(***************************************************************************)
(* The council loop keeps going                                            *)
(***************************************************************************)
\* the signals the council loop has taken off the signal queue
Dequeued == hist.produced - Len(signal_queue)

C22_VenueFailureLeavesNoTrade ==
    [][/\ (venue.pc = "called" /\ venue'.pc = "idle") =>
             /\ venue'.ret = "None"
             /\ trades' = trades
       /\ (venue.pc = "called" /\ venue'.pc = "posted") =>
             /\ venue'.midpoint.ok /\ venue'.midpoint.mid > 0
             /\ venue'.resp.ok
             /\ trades' = trades
       /\ Len(trades') > Len(trades) =>
             /\ venue.pc = "posted"
             /\ venue.midpoint.ok /\ venue.midpoint.mid > 0
             /\ venue.resp.ok
             /\ trades' = Append(trades, LiveTradeRecord(venue))
             /\ venue'.ret = "order"
       /\ (venue'.ret = "order" /\ venue.ret # "order") => venue.pc = "posted"]_vars

\* each of the two venue failures has made a call return None, after an
\* earlier call's trade was recorded
C22_Witness ==
    /\ venue.pc = "idle"
    /\ venue.ret = "None"
    /\ venue.why \in {"midpoint", "post"}
    /\ trades # <<>>
    /\ Last(trades).entry_price = 4000

(***************************************************************************)
(* Start-up in live mode                                                   *)
(***************************************************************************)
\* C23: in live trading mode with an empty POLYMARKET_PRIVATE_KEY start-up
\* aborts before any task is created: no signal is dequeued, evaluated, logged
\* or traded.
C23_LiveWithoutKeyAborts ==
    (boot.mode = "live" /\ boot.key = "") =>
        /\ ~boot.started
        /\ Dequeued = 0
        /\ calls = <<>>
        /\ signal_log = <<>>
        /\ trades = <<>>

(***************************************************************************)
(* Momentum                                                                *)
(***************************************************************************)
\* every price recorded for the symbol, a symbol never seen having none
LogOf(symbol) == IF symbol \in DOMAIN mom.log THEN mom.log[symbol] ELSE <<>>

\* the change, in hundredths of a percent, from the oldest of the last Window
\* prices recorded to the newest
WindowChange(log) ==
    LET oldest == log[Max(1, Len(log) - Window + 1)]
        newest == log[Len(log)]
    IN IF oldest = 0 THEN 0 ELSE ((newest - oldest) * 10000) \div oldest

\* C24: get_momentum(symbol) returns 0 when fewer than two prices were
\* recorded for the symbol (none for a symbol never seen) and 0 when the
\* oldest price of the window is zero; otherwise the percentage change from
\* the oldest to the newest price of the current window.
C24_MomentumOverWindow ==
    [][mom' # mom /\ mom'.log = mom.log =>
          LET log == LogOf(Lower(mom'.symbol))
          IN mom'.value = IF Len(log) < 2 THEN 0 ELSE WindowChange(log)]_vars

\* a non-zero momentum returned after the window dropped its first price
C24_Witness ==
    /\ mom.symbol = "BTCUSDT"
    /\ Len(mom.log["btcusdt"]) > Window
    /\ mom.log["btcusdt"][1] = 0
    /\ mom.value = 2500

(***************************************************************************)
(* Implied odds and the composite score                                    *)
(***************************************************************************)
\* the signals the detector puts, or is suspended putting, in this step
NewSignals ==
    {s \in {det'} \cup Range(signal_queue') : s # NoSignal /\ s # det /\ s \notin Range(signal_queue)}

C26_CompositeScoreInUnitRange ==
    /\ WEIGHT_EDGE + WEIGHT_MOMENTUM + WEIGHT_VOLUME = 10000
    /\ scored.score >= 0
    /\ scored.score <= 10000
    /\ (/\ Abs(scored.edge_pct) >= 1000
        /\ Abs(scored.momentum_pct) >= 500
        /\ scored.avg_volume > 0
        /\ scored.volume_24h >= 5 * scored.avg_volume) => scored.score = 10000

\* a call beyond all three saturation points, scored 1
C26_Witness ==
    /\ scored.edge_pct = -1500
    /\ scored.momentum_pct = 900
    /\ scored.volume_24h = 700
    /\ scored.avg_volume = 100
    /\ scored.score = 10000

StageOrder == <<"sentiment", "confidence", "judge">>

\* C27: within one evaluate() call the inference calls made so far are always
\* the first calls of sentiment, confidence, judge in that order, so no stage
\* is called twice and none before the stage ahead of it has returned; once
\* the sentiment stage has returned, whatever it returned (backend failure and
\* unparseable output included), the confidence stage is the next to run and
\* has been called exactly once whenever the judge runs or evaluate() returns.
C27_StagesInOrderOnce ==
    /\ Len(calls) <= 3
    /\ calls = SubSeq(StageOrder, 1, Len(calls))
    /\ (epc = "sentiment") = (calls = <<>> /\ epc \notin {"idle", "done"})
    /\ Len(calls) = 1 => epc = "confidence"
    /\ epc = "judge" => calls = <<"sentiment", "confidence">>
    /\ epc = "done" => Len(calls) >= 2

\* an evaluate() whose sentiment call failed and which still went through the
\* confidence stage and the judge, each once
C27_Witness ==
    /\ epc = "done"
    /\ "sentiment" \in failed
    /\ calls = StageOrder

\* the signals the detector hands on in this step, each with the tick it was
\* computed for
NewSignalsOfTick ==
    IF paired_queue # <<>> /\ paired_queue' = Tail(paired_queue)
    THEN {[tick |-> Head(paired_queue).tick, signal |-> s] : s \in NewSignals}
    ELSE {}

\* C28: the momentum an emitted signal carries is the momentum of the price
\* window as it stood when the signal's tick was recorded, whatever was
\* recorded while the tick waited in the price and paired queues.
C28_SignalCarriesTickMomentum ==
    [][\A e \in NewSignalsOfTick :
          /\ e.signal.price = e.tick.price
          /\ e.signal.price_momentum_pct = e.tick.momentum]_vars

\* execute() returns an order to the council loop in this step
OrderReturned == ex[Council].ret # "order" /\ ex'[Council].ret = "order"

\* C29: the cooldown map changes only in the step in which execute() returns
\* an order, and then only at the symbol of the signal that was traded, which
\* gets the deadline now + cooldown; a SKIP or short-circuit verdict, a trade
\* the risk gate blocked and a cooldown rejection leave the map as it was; a
\* signal is rejected by the cooldown gate only after a trade on its own
\* symbol.
C29_CooldownSetOnlyByOwnTrade ==
    [][/\ cooldown_until' # cooldown_until =>
             /\ OrderReturned
             /\ \A sym \in Symbols \ {cur.symbol} :
                   cooldown_until'[sym] = cooldown_until[sym]
             /\ cooldown_until'[cur.symbol] = now + cfg.cooldown
       /\ (lpc = "evaluate" /\ lpc' = "get") => cooldown_until' = cooldown_until
       /\ (ex[Council].pc = "called" /\ ex'[Council].ret = "None") =>
             cooldown_until' = cooldown_until
       /\ hist'.rejected # hist.rejected =>
             /\ cooldown_until' = cooldown_until
             /\ hist.exec_at[Head(signal_queue).symbol] >= 0]_vars

\* while btcusdt is cooling down after its trade, an ethusdt signal has passed
\* the cooldown gate, and the risk gate has blocked its trade without starting
\* a cooldown for it
C29_Witness ==
    /\ cooldown_until["btcusdt"] > clock
    /\ hist.exec_at["btcusdt"] >= 0
    /\ cur.symbol = "ethusdt"
    /\ ex[Council].symbol = "ethusdt"
    /\ ex[Council].ret = "None"
    /\ ~ex[Council].res.ok
    /\ cooldown_until["ethusdt"] = 0

\* C30: in the wired agent only the council loop calls execute(), and it
\* awaits it: while a call is in flight the loop is inside that iteration (it
\* has not gone back to its get, and evaluate() is not running), so no two
\* risk-check-then-record sequences overlap; and the open trades never exceed
\* max_open_positions in number nor max_capital in total size, whatever
\* closes happen in between.
C30_OneExecutionWithinLimits ==
    /\ \A c \in Testers : ~InFlight(c)
    /\ InFlight(Council) <=> lpc = "execute"
    /\ InFlight(Council) => epc = "idle"
    /\ ~overlap
    /\ OpenCount(trades) <= cfg.max_open_positions
    /\ Exposure(trades) <= cfg.max_capital

\* a trade is open and the council loop's latest call was refused because it
\* would have exceeded max_capital; the loop is back at its get
C30_Witness ==
    /\ OpenCount(trades) >= 1
    /\ Exposure(trades) + ex[Council].size > cfg.max_capital
    /\ ex[Council].ret = "None"
    /\ ex[Council].res.reason = "exposure"
    /\ lpc = "get"

\* C31: a decision evaluate() returns with action TRADE has a confidence of
\* at least min_confidence and a verdict parsed from the judge's output, after
\* all three calls; a short-circuit verdict and the verdict after a failed
\* judge call are never TRADE.
C31_TradeOnlyFromJudge ==
    /\ (epc = "done" /\ verdict.action = "TRADE") =>
          /\ confidence.confidence >= cfg.min_confidence
          /\ verdict.model = "judge" /\ verdict.rationale = "model"
          /\ "judge" \notin failed
          /\ calls = StageOrder
    /\ (epc = "done" /\ Len(calls) = 2) => verdict.action # "TRADE"
    /\ (epc = "done" /\ "judge" \in failed) => verdict.action # "TRADE"

\* a TRADE decision with the confidence exactly at a positive threshold, and
\* the sentiment call failed
C31_Witness ==
    /\ epc = "done" /\ verdict.action = "TRADE"
    /\ cfg.min_confidence > 0
    /\ confidence.confidence = cfg.min_confidence
    /\ "sentiment" \in failed

\* the output has a CONFIDENCE line with a number float() accepts, in either
\* channel
HasParsableConfidence(out) ==
    \E l \in Range(out.response) \cup Range(out.thinking) :
        l.label = "CONFIDENCE" /\ l.val.ok

\* C32: the grade is 0.0 when the grader's call raised and when its output
\* has no parsable CONFIDENCE value; and with min_confidence > 0 a confidence
\* stage that failed or graded 0.0 ends evaluate() on the short-circuit path:
\* verdict SKIP with size 0 after two calls, the judge never called.
C32_FailedConfidenceShortCircuits ==
    /\ \A out \in ChatOutcomes(ConfLines) :
          (~out.ok \/ ~HasParsableConfidence(out)) => grade(out).confidence = 0
    /\ (/\ cfg.min_confidence > 0
        /\ Len(calls) >= 2
        /\ "confidence" \in failed \/ confidence.confidence = 0) =>
          /\ epc = "done"
          /\ calls = <<"sentiment", "confidence">>
          /\ verdict = ShortCircuitVerdict
          /\ verdict.action = "SKIP" /\ verdict.size_usd = 0

\* the confidence call failed under a positive threshold and evaluate()
\* returned the short-circuit verdict
C32_Witness ==
    /\ cfg.min_confidence > 0
    /\ "confidence" \in failed
    /\ epc = "done"
    /\ verdict.model = "short-circuit"

\* C33 as stated: every emitted signal has direction UP exactly when its edge
\* is positive and DOWN exactly when it is negative, for every midpoint in
\* (0, 1).
C33_DirectionMatchesEdge ==
    [][\A s \in NewSignals :
          /\ (s.direction = "UP") <=> (s.edge_pct > 0)
          /\ (s.direction = "DOWN") <=> (s.edge_pct < 0)]_vars

\* C33: every emitted signal has direction UP exactly when its momentum is
\* positive and DOWN otherwise; the sign of its edge agrees with the direction
\* whenever the odds midpoint is within [0.01, 0.99]. For a midpoint outside
\* that range the clamp alone sets the edge, whatever the momentum.
C33_DirectionMatchesEdgeWithinClamp ==
    [][\A s \in NewSignals :
          /\ (s.direction = "UP") <=> (s.price_momentum_pct > 0)
          /\ (s.direction = "DOWN") <=> (s.price_momentum_pct <= 0)
          /\ (s.odds_midpoint >= 100 /\ s.odds_midpoint <= 9900) =>
                /\ (s.direction = "UP") <=> (s.edge_pct > 0)
                /\ (s.direction = "DOWN") <=> (s.edge_pct < 0)
          /\ s.odds_midpoint > 9900 => s.edge_pct < 0
          /\ s.odds_midpoint < 100 => s.edge_pct > 0]_vars

\* a DOWN signal with a negative edge on a midpoint inside the clamp range
C33_Witness ==
    /\ signal_queue # <<>>
    /\ Head(signal_queue).direction = "DOWN"
    /\ Head(signal_queue).edge_pct < 0
    /\ Head(signal_queue).odds_midpoint = 5000

\* the signals that have passed the cooldown gate so far
PassedGate == Dequeued - hist.rejected

\* C34: over the whole handling of a signal that passed the cooldown gate
\* exactly one signal-log row is written: the log never holds more rows than
\* signals have passed the gate, and holds exactly one row for each of them
\* whenever the council loop is back at its get.
C34_OneSignalRowPerSignal ==
    /\ Len(signal_log) <= PassedGate
    /\ lpc = "get" => Len(signal_log) = PassedGate

\* the price loop is suspended in its put on the full paired queue
PriceLoopBlocked == agg.pending # NoPair

\* the market lookups made in this step
NewLookups == {lookups'[k] : k \in (DOMAIN lookups') \ (DOMAIN lookups)}

\* C35: while the price loop is suspended in its put, a step of the odds loop
\* takes the head of the odds queue and overwrites that market's cache entry,
\* leaving the price loop as it is; and every market lookup the price loop
\* makes, when it takes up a tick and when it goes on after the suspended put,
\* reads the cache as it is in that step, so a pair built after the block
\* carries the odds cached then.
C35_OddsLoopRunsWhilePriceLoopBlocked ==
    /\ []((PriceLoopBlocked /\ odds_queue # <<>>) => ENABLED ConsumeOdds)
    /\ [][/\ (PriceLoopBlocked /\ odds_queue' # odds_queue /\ odds_queue # <<>>
                /\ odds_queue' = Tail(odds_queue)) =>
             /\ latest_odds'[Head(odds_queue).token_id] = Head(odds_queue)
             /\ agg' = agg /\ paired_queue' = paired_queue
       /\ \A l \in NewLookups : l.odds = latest_odds[l.market]
       /\ \A k \in (DOMAIN emitted') \ (DOMAIN emitted) :
             \/ emitted'[k] = agg.pending
             \/ emitted'[k].odds = latest_odds[emitted'[k].odds.token_id]]_vars

\* the price loop is suspended in its put with a pair whose market has had
\* its cache entry overwritten since the pair was built
C35_Witness ==
    /\ PriceLoopBlocked
    /\ Len(paired_queue) = PairedCap
    /\ latest_odds[agg.pending.odds.token_id].seq > agg.pending.odds.seq

\* the ticks whose walk over the markets has ended
TicksProcessed == Len(agg.seen) - (IF agg.tick = NoTick THEN 0 ELSE 1)

\* the pairs of the first n ticks have all been taken by the detector
PairsTaken(n) ==
    /\ \A k \in DOMAIN paired_queue : paired_queue[k].tick.id > n
    /\ PriceLoopBlocked => agg.pending.tick.id > n

\* C36: while the council loop keeps dequeuing, back-pressure never blocks
\* for good. Every tick the feed has made, suspended in its put or not, is
\* eventually put, taken up and processed by the aggregator (so the feed and
\* the price loop are resumed from every put they are suspended in), and all
\* the pairs made for it are eventually taken by the detector; and the
\* detector suspended in its put on the signal queue is resumed.
C36_BackpressureNeverDeadlocks ==
    /\ (det # NoSignal) ~> (det = NoSignal)
    /\ \A n \in 1..MaxTicks :
          (binance.made >= n) ~> (TicksProcessed >= n /\ PairsTaken(n))

\* the signal queue is full and the detector, the price loop and the price
\* queue behind them are held: each queue is full and each consumer is
\* suspended in its put
C36_Witness ==
    /\ Len(signal_queue) = SignalCap
    /\ det # NoSignal
    /\ Len(paired_queue) = PairedCap
    /\ PriceLoopBlocked
    /\ Len(price_queue) = PriceCap

\* the last n elements of a sequence, in order
LastN(log, n) == SubSeq(log, Len(log) - n + 1, Len(log))

\* C37: for each symbol the price history never holds more than the window
\* size: after k recorded prices it is the last min(k, N) of them in arrival
\* order, so its oldest price is the one recorded min(k, N) - 1 ticks before
\* the newest.
C37_HistoryIsLastWindow ==
    \A sym \in Symbols :
        LET log == mom.log[sym]
            k == Len(log)
            h == price_history[sym]
        IN /\ Len(h) <= Window
           /\ Len(h) = Min(k, Window)
           /\ h = LastN(log, Min(k, Window))
           /\ k > 0 => (h[1] = log[k - (Min(k, Window) - 1)] /\ Last(h) = log[k])

\* more prices than the window holds were recorded, and the first one, which
\* differs from the one after it, is gone
C37_Witness ==
    /\ Len(mom.log["btcusdt"]) > Window
    /\ Len(price_history["btcusdt"]) = Window
    /\ mom.log["btcusdt"][1] # mom.log["btcusdt"][2]
    /\ price_history["btcusdt"][1] = mom.log["btcusdt"][Len(mom.log["btcusdt"]) - Window + 1]

\* a database operation of the council loop takes place in this step
DbOperation ==
    \/ signal_log' # signal_log
    \/ trades' # trades
    \/ hist'.cap_reads # hist.cap_reads
    \/ \E c \in Callers : ex'[c].snap # ex[c].snap

\* C38: on shutdown start() stops the components, cancels every task and
\* awaits them all before it closes the database: the database is closed only
\* when every task has ended, no database operation takes place once it is
\* closed, no task runs a step of its own once cancelled, and start() returns
\* after shutdown() was called.
C38_DatabaseClosedAfterTasks ==
    /\ [](life.db = "closed" => (life.cancelled /\ AllDone))
    /\ [](life.returned => life.db = "closed")
    /\ [][life.db = "closed" => ~DbOperation]_vars
    /\ [][life.cancelled => ~DbOperation]_vars
    /\ stop.shutdown ~> life.returned

\* start() has returned after a shutdown that caught the council loop between
\* the trade-record write and the signal-log write of an execution
C38_Witness ==
    /\ life.returned
    /\ lpc = "cancelled"
    /\ Len(trades) = 1
    /\ Len(signal_log) = 1

\* the signals the detector has emitted and that wait for the council
EmittedSignals == {signal_queue[i] : i \in DOMAIN signal_queue} \cup ({det} \ {NoSignal})

\* C40: every signal the detector emits has a score of at most
\* WEIGHT_EDGE + WEIGHT_MOMENTUM (0.8): the score is the sum of the edge and
\* momentum sub-scores alone, whatever the 24 h volume of the tick is; and
\* with min_signal_score above 0.8 no signal is emitted.
C40_ScoreAtMostEdgePlusMomentum ==
    /\ \A signal \in EmittedSignals :
          /\ signal.signal_score <= WEIGHT_EDGE + WEIGHT_MOMENTUM
          /\ signal.signal_score =
                score_edge(signal.edge_pct) + score_momentum(signal.price_momentum_pct)
    /\ cfg.min_signal_score > WEIGHT_EDGE + WEIGHT_MOMENTUM => EmittedSignals = {}

\* a tick whose volume is 700 units gave a signal whose edge and momentum
\* sub-scores are both saturated: its score is exactly 0.8
C40_Witness ==
    /\ lookups[1].tick.volume_24h = 700
    /\ signal_queue # <<>>
    /\ Head(signal_queue).price = lookups[1].tick.price
    /\ Head(signal_queue).signal_score = WEIGHT_EDGE + WEIGHT_MOMENTUM

====
